---- MODULE Spec2Model ----
(***************************************************************************)
(* RoomSync storage layer (server/storage.ts): the in-memory backend       *)
(* MemStorage and the relational backend DatabaseStorage behind IStorage,  *)
(* with the route handlers of server/routes.ts as their callers.           *)
(*                                                                         *)
(* Conventions.                                                            *)
(*  - An optional value (null / undefined in the source) is None or        *)
(*    Some(x).                                                             *)
(*  - Text on which the code works character by character (locations:      *)
(*    toLowerCase, includes) is a sequence of one-character strings; text  *)
(*    that is only compared for equality (tags, names) is a TLA+ string.   *)
(*  - Dates are ticks of the clock `now`.                                  *)
(*  - Math.round(x) of a non-negative rational num/den is                  *)
(*    (2*num + den) \div (2*den); for every value the model reaches the    *)
(*    IEEE-754 double the code computes rounds to the same integer.        *)
(***************************************************************************)
EXTENDS Integers, Sequences, FiniteSets, TLC

VARIABLES
    backend,        \* "mem" (MemStorage) or "db" (DatabaseStorage)
    users,          \* sequence of User records, users[i].id = i
    roommates,      \* function: user id -> Roommate-extension record
    listings,       \* sequence of Listing records, listings[i].id = i
    messages,       \* sequence of Message records, messages[i].id = i
    conversations,  \* function: conversation key -> pointer to the last message
    badges,         \* sequence of catalog Badge records
    userId,         \* next user id
    listingId,      \* next listing id
    messageId,      \* next message id
    badgeId,        \* next badge id
    now,            \* the clock read by new Date()
    pending,        \* MemStorage: badge checks started and not yet finished
    registering,    \* registrations that passed the username check, not yet created
    inflight,       \* storage calls suspended at an await, with what they hold
    ret             \* the last operation, its arguments and its result

vars == <<backend, users, roommates, listings, messages, conversations, badges,
          userId, listingId, messageId, badgeId, now, pending, registering, inflight,
          ret>>

----------------------------------------------------------------------------
(* Optional values, sequences, text.                                       *)

None == <<>>
Some(x) == <<x>>
IsSome(o) == o # <<>>
Get(o) == o[1]

Range(s) == {s[i] : i \in 1..Len(s)}
Contains(s, x) == \E i \in 1..Len(s) : s[i] = x

RECURSIVE SeqsUpTo(_, _)
\* all sequences over S of length at most n
SeqsUpTo(S, n) ==
    IF n = 0 THEN {<<>>}
    ELSE LET shorter == SeqsUpTo(S, n - 1)
         IN  shorter \cup {Append(s, x) : s \in {t \in shorter : Len(t) = n - 1}, x \in S}

UpperCase == <<"A", "B", "C", "D", "E", "F", "G", "H", "I", "J", "K", "L", "M",
               "N", "O", "P", "Q", "R", "S", "T", "U", "V", "W", "X", "Y", "Z">>
LowerCase == <<"a", "b", "c", "d", "e", "f", "g", "h", "i", "j", "k", "l", "m",
               "n", "o", "p", "q", "r", "s", "t", "u", "v", "w", "x", "y", "z">>

\* the lower-case letter of each upper-case letter
LowerOf == [c \in {UpperCase[i] : i \in 1..Len(UpperCase)} |->
              LowerCase[CHOOSE i \in 1..Len(UpperCase) : UpperCase[i] = c]]

\* String.prototype.toLowerCase, one character
ToLowerChar(c) == IF c \in DOMAIN LowerOf THEN LowerOf[c] ELSE c

\* String.prototype.toLowerCase
ToLowerCase(s) == [i \in 1..Len(s) |-> ToLowerChar(s[i])]

\* String.prototype.includes: needle occurs in hay as a contiguous substring
Includes(hay, needle) ==
    \E i \in 0..(Len(hay) - Len(needle)) : SubSeq(hay, i + 1, i + Len(needle)) = needle

\* JavaScript truthiness of an optional string: neither null/undefined nor ""
TruthyText(o) == IsSome(o) /\ Get(o) # <<>>
TruthyStr(o) == IsSome(o) /\ Get(o) # ""

\* Math.round(num / den) for num >= 0, den > 0 (round half up)
Round(num, den) == (2 * num + den) \div (2 * den)

----------------------------------------------------------------------------
(* Seed data of MemStorage.seedData / the database seed script.            *)

DowntownNewYork == <<"D", "o", "w", "n", "t", "o", "w", "n", ",", " ", "N", "e", "w", " ", "Y", "o", "r", "k">>
WilliamsburgBrooklyn == <<"W", "i", "l", "l", "i", "a", "m", "s", "b", "u", "r", "g", ",", " ", "B", "r", "o", "o", "k", "l", "y", "n">>
ChelseaNewYork == <<"C", "h", "e", "l", "s", "e", "a", ",", " ", "N", "e", "w", " ", "Y", "o", "r", "k">>
BrooklynNY == <<"B", "r", "o", "o", "k", "l", "y", "n", ",", " ", "N", "Y">>
EastVillageNewYork == <<"E", "a", "s", "t", " ", "V", "i", "l", "l", "a", "g", "e", ",", " ", "N", "e", "w", " ", "Y", "o", "r", "k">>
ParkSlopeBrooklyn == <<"P", "a", "r", "k", " ", "S", "l", "o", "p", "e", ",", " ", "B", "r", "o", "o", "k", "l", "y", "n">>

\* hashPassword: a one-way digest, kept symbolic
hashPassword(password) == <<"sha256", password>>

\* the User record createUser stores for a new registration
NewUser(id, username, password, createdAt) ==
    [id |-> id, username |-> username, password |-> hashPassword(password),
     firstName |-> None, lastName |-> None, age |-> None, gender |-> None,
     occupation |-> None, location |-> None, bio |-> None,
     preferences |-> <<>>, profileImage |-> None, isVerified |-> FALSE,
     profileCompletion |-> 0, userBadges |-> <<>>, createdAt |-> createdAt]

\* MemStorage.seedData: a sample user with a complete profile
SeedUser(id, username, firstName, lastName, age, gender, occupation, location, preferences, createdAt) ==
    [id |-> id, username |-> username, password |-> hashPassword("password123"),
     firstName |-> Some(firstName), lastName |-> Some(lastName), age |-> Some(age),
     gender |-> Some(gender), occupation |-> Some(occupation),
     location |-> Some(location), bio |-> Some("bio"),
     preferences |-> preferences, profileImage |-> Some("image"),
     isVerified |-> TRUE, profileCompletion |-> 100, userBadges |-> <<>>,
     createdAt |-> createdAt]

SeedUsers(t) ==
    << SeedUser(1, "sarah_j", "Sarah", "Johnson", 28, "female", "Marketing Manager",
                DowntownNewYork,
                <<"Non-smoker", "Early bird", "Clean", "Pet-friendly">>, t),
       SeedUser(2, "alex_dev", "Alex", "Chen", 26, "male", "Software Developer",
                WilliamsburgBrooklyn,
                <<"Non-smoker", "Night owl", "Organized", "Quiet">>, t),
       SeedUser(3, "jamie_g", "Jamie", "Garcia", 24, "non-binary", "Graphic Designer",
                ChelseaNewYork,
                <<"Non-smoker", "Flexible schedule", "Creative", "Social">>, t) >>

RoommateData(budget, moveInDate, duration, score) ==
    [isLookingForRoom |-> TRUE, budget |-> budget, moveInDate |-> moveInDate,
     duration |-> duration, compatibilityScore |-> score]

SeedRoommates ==
    (1 :> RoommateData(1200, "2023-09-01", "1 year", 89)) @@
    (2 :> RoommateData(1350, "2023-08-15", "6+ months", 85)) @@
    (3 :> RoommateData(1100, "2023-10-01", "1+ year", 82))

----------------------------------------------------------------------------
(* Roommates: getRoommates.                                                *)

\* RoommateFilters with every field absent
NoRoommateFilters ==
    [location |-> None, minAge |-> None, maxAge |-> None, gender |-> None,
     lifestyle |-> None, isVerified |-> None]

\* Number(age) as the comparison operators coerce it: null is 0
AgeNumber(age) == IF IsSome(age) THEN Get(age) ELSE 0

\* a variant that gives every user a roommate view, with or without a record
JoinAllUsers(us, rm) ==
    [i \in 1..Len(us) |-> IF us[i].id \in DOMAIN rm THEN rm[us[i].id] @@ us[i] ELSE us[i]]

\* the join of the users map with the roommates map, in users order
JoinRoommates(us, rm) ==
    LET joined == [i \in 1..Len(us) |->
                     IF us[i].id \in DOMAIN rm THEN rm[us[i].id] @@ us[i] ELSE us[i]]
    IN  SelectSeq(joined, LAMBDA r : r.id \in DOMAIN rm)

\* MemStorage.getRoommates; filters is None (no argument) or Some(RoommateFilters)
MemGetRoommates(us, rm, filters) ==
    LET all == JoinRoommates(us, rm)
        f == Get(filters)
        byLocation(s) ==
            IF TruthyText(f.location)
            THEN SelectSeq(s, LAMBDA r :
                     IsSome(r.location) /\
                     Includes(ToLowerCase(Get(r.location)), ToLowerCase(Get(f.location))))
            ELSE s
        byMinAge(s) ==
            IF IsSome(f.minAge)
            THEN SelectSeq(s, LAMBDA r : AgeNumber(r.age) >= Get(f.minAge))
            ELSE s
        byMaxAge(s) ==
            IF IsSome(f.maxAge)
            THEN SelectSeq(s, LAMBDA r : AgeNumber(r.age) <= Get(f.maxAge))
            ELSE s
        byGender(s) ==
            IF TruthyStr(f.gender)
            THEN SelectSeq(s, LAMBDA r : r.gender = f.gender)
            ELSE s
        byLifestyle(s) ==
            IF IsSome(f.lifestyle) /\ Len(Get(f.lifestyle)) > 0
            THEN SelectSeq(s, LAMBDA r :
                     \E i \in 1..Len(Get(f.lifestyle)) :
                         Contains(r.preferences, Get(f.lifestyle)[i]))
            ELSE s
        byVerified(s) ==
            IF f.isVerified = Some(TRUE)
            THEN SelectSeq(s, LAMBDA r : r.isVerified)
            ELSE s
    IN  IF IsSome(filters)
        THEN byVerified(byLifestyle(byGender(byMaxAge(byMinAge(byLocation(all))))))
        ELSE all

\* DatabaseStorage.getRoommates: the inner join filtered in SQL (LIKE is
\* case-sensitive, a comparison with a NULL column is not true), then the
\* lifestyle filter in code; rows are taken in id order
DbGetRoommates(us, rm, filters) ==
    LET all == JoinRoommates(us, rm)
        f == Get(filters)
        where(r) ==
            /\ TruthyText(f.location) =>
                   IsSome(r.location) /\ Includes(Get(r.location), Get(f.location))
            /\ IsSome(f.minAge) => IsSome(r.age) /\ Get(r.age) >= Get(f.minAge)
            /\ IsSome(f.maxAge) => IsSome(r.age) /\ Get(r.age) <= Get(f.maxAge)
            /\ TruthyStr(f.gender) => r.gender = f.gender
            /\ f.isVerified = Some(TRUE) => r.isVerified
        results == IF IsSome(filters) THEN SelectSeq(all, where) ELSE all
    IN  IF IsSome(filters) /\ IsSome(f.lifestyle) /\ Len(Get(f.lifestyle)) > 0
        THEN SelectSeq(results, LAMBDA r :
                 \E i \in 1..Len(Get(f.lifestyle)) :
                     Contains(r.preferences, Get(f.lifestyle)[i]))
        ELSE results

getRoommates(be, us, rm, filters) ==
    IF be = "mem" THEN MemGetRoommates(us, rm, filters) ELSE DbGetRoommates(us, rm, filters)

----------------------------------------------------------------------------
(* Compatibility: the score computation inside getTopMatches (the same     *)
(* text in both backends).                                                 *)

\* user.preferences.filter(pref => roommate.preferences.includes(pref))
commonPreferences(userPrefs, roommatePrefs) ==
    SelectSeq(userPrefs, LAMBDA pref : Contains(roommatePrefs, pref))

\* new Set([...user.preferences, ...roommate.preferences]).size
totalPreferences(userPrefs, roommatePrefs) ==
    Cardinality(Range(userPrefs) \cup Range(roommatePrefs))

lifestyleScore(userPrefs, roommatePrefs) ==
    IF totalPreferences(userPrefs, roommatePrefs) > 0
    THEN Round(Len(commonPreferences(userPrefs, roommatePrefs)) * 100,
               totalPreferences(userPrefs, roommatePrefs))
    ELSE 50

\* the location comparison without toLowerCase
locationScoreCaseSensitive(userLoc, roommateLoc) ==
    IF TruthyText(userLoc) /\ TruthyText(roommateLoc) /\ Get(userLoc) = Get(roommateLoc)
    THEN 100
    ELSE IF TruthyText(userLoc) /\ TruthyText(roommateLoc) /\
            (\/ Includes(Get(userLoc), Get(roommateLoc))
             \/ Includes(Get(roommateLoc), Get(userLoc)))
         THEN 75
         ELSE 50

\* the location comparison that takes a shared word for a substring match
locationScoreSharedWord(userLoc, roommateLoc) ==
    IF TruthyText(userLoc) /\ TruthyText(roommateLoc) /\
       ToLowerCase(Get(userLoc)) = ToLowerCase(Get(roommateLoc))
    THEN 100
    ELSE IF TruthyText(userLoc) /\ TruthyText(roommateLoc) /\
            \E i \in 1..Len(Get(userLoc)), j \in 1..Len(Get(userLoc)) :
                /\ j >= i + 1
                /\ Includes(ToLowerCase(Get(roommateLoc)),
                            ToLowerCase(SubSeq(Get(userLoc), i, j)))
         THEN 75
         ELSE 50

locationScore(userLoc, roommateLoc) ==
    IF TruthyText(userLoc) /\ TruthyText(roommateLoc) /\
       ToLowerCase(Get(userLoc)) = ToLowerCase(Get(roommateLoc))
    THEN 100
    ELSE IF TruthyText(userLoc) /\ TruthyText(roommateLoc) /\
            (\/ Includes(ToLowerCase(Get(userLoc)), ToLowerCase(Get(roommateLoc)))
             \/ Includes(ToLowerCase(Get(roommateLoc)), ToLowerCase(Get(userLoc))))
         THEN 75
         ELSE 50

\* prefs.filter(p => ['Early bird', 'Night owl'].includes(p))
schedulePrefs(prefs) == SelectSeq(prefs, LAMBDA p : p \in {"Early bird", "Night owl"})

scheduleScore(userPrefs, roommatePrefs) ==
    IF Len(schedulePrefs(userPrefs)) > 0 /\ Len(schedulePrefs(roommatePrefs)) > 0
    THEN IF \E i \in 1..Len(schedulePrefs(userPrefs)) :
               Contains(schedulePrefs(roommatePrefs), schedulePrefs(userPrefs)[i])
         THEN 100
         ELSE 30
    ELSE 70

\* the weighted sum truncated (Math.floor) instead of rounded
overallScoreFloor(lifestyle, location, schedule) ==
    (5 * lifestyle + 3 * location + 2 * schedule) \div 10

\* Math.round(lifestyle * 0.5 + location * 0.3 + schedule * 0.2)
overallScore(lifestyle, location, schedule) ==
    Round(5 * lifestyle + 3 * location + 2 * schedule, 10)

compatibilityDetails(user, roommate) ==
    LET l == lifestyleScore(user.preferences, roommate.preferences)
        c == locationScore(user.location, roommate.location)
        s == scheduleScore(user.preferences, roommate.preferences)
    IN  [lifestyleScore |-> l, locationScore |-> c, scheduleScore |-> s,
         overallScore |-> overallScore(l, c, s),
         commonInterests |-> commonPreferences(user.preferences, roommate.preferences)]

RECURSIVE InsertByScore(_, _)
\* x placed behind every element of the sorted s whose score is not smaller
InsertByScore(s, x) ==
    IF s = <<>> THEN <<x>>
    ELSE IF Head(s).compatibilityScore >= x.compatibilityScore
         THEN <<Head(s)>> \o InsertByScore(Tail(s), x)
         ELSE <<x>> \o s

RECURSIVE SortByScoreDesc(_)
\* Array.prototype.sort((a, b) => b.compatibilityScore - a.compatibilityScore):
\* descending, stable
SortByScoreDesc(s) ==
    IF s = <<>> THEN <<>>
    ELSE InsertByScore(SortByScoreDesc(SubSeq(s, 1, Len(s) - 1)), s[Len(s)])

\* Array.prototype.slice(0, n)
Slice(s, n) == SubSeq(s, 1, IF Len(s) < n THEN Len(s) ELSE n)

TopMatchesLimit == 6

\* getTopMatches with the comparator reversed (a - b): ascending
getTopMatchesAscending(be, us, rm, uid) ==
    IF uid \notin 1..Len(us) THEN <<>>
    ELSE LET user == us[uid]
             otherRoommates == SelectSeq(getRoommates(be, us, rm, None),
                                         LAMBDA r : r.id # uid)
             scored == [i \in 1..Len(otherRoommates) |->
                          LET d == compatibilityDetails(user, otherRoommates[i])
                          IN  [compatibilityScore |-> d.overallScore,
                               compatibilityDetails |-> d] @@ otherRoommates[i]]
             sorted == SortByScoreDesc(scored)
         IN  Slice([i \in 1..Len(sorted) |-> sorted[Len(sorted) + 1 - i]],
                   TopMatchesLimit)

\* getTopMatches(userId): [] for an unknown user
getTopMatches(be, us, rm, uid) ==
    IF uid \notin 1..Len(us) THEN <<>>
    ELSE LET user == us[uid]
             otherRoommates == SelectSeq(getRoommates(be, us, rm, None),
                                         LAMBDA r : r.id # uid)
             scored == [i \in 1..Len(otherRoommates) |->
                          LET d == compatibilityDetails(user, otherRoommates[i])
                          IN  [compatibilityScore |-> d.overallScore,
                               compatibilityDetails |-> d] @@ otherRoommates[i]]
         IN  Slice(SortByScoreDesc(scored), TopMatchesLimit)

----------------------------------------------------------------------------
(* Operations.  Each action is one call of a storage method; ret records   *)
(* the call and what it returned.                                          *)

GetTopMatches(uid) ==
    /\ ret' = [op |-> "getTopMatches", userId |-> uid,
               val |-> getTopMatches(backend, users, roommates, uid)]
    /\ UNCHANGED <<backend, inflight, pending, registering, users, roommates, listings, messages, conversations,
                   badges, userId, listingId, messageId, badgeId, now>>

NoCall == [op |-> "none"]

----------------------------------------------------------------------------
(* Specification SpecScore: the score computation on two roommates whose   *)
(* preference lists hold at most MaxPrefs tags, repeated tags included.    *)

MaxPrefs == 3

\* the tags of the score specification, in a fixed order
ScoreTags == <<"Early bird", "Night owl", "Clean", "Quiet">>

RECURSIVE TagLists(_, _)
\* the preference lists of at most n tags drawn from ScoreTags[from..]: one list
\* per multiset of tags (a tag may repeat), its tags in ScoreTags order
TagLists(from, n) ==
    IF n = 0 \/ from > Len(ScoreTags) THEN {<<>>}
    ELSE TagLists(from + 1, n) \cup
         {<<ScoreTags[from]>> \o rest : rest \in TagLists(from, n - 1)}

NY == <<"N", "Y">>
NYUS == <<"N", "Y", ",", " ", "U", "S">>
ScoreLocations == {None, Some(NY), Some(NYUS)}

\* a registered user who has then set preferences and location
ProfiledUser(id, username, preferences, location, t) ==
    [NewUser(id, username, "secret", t) EXCEPT
        !.preferences = preferences, !.location = location]

InitScore ==
    /\ backend \in {"mem", "db"}
    /\ \E p1 \in TagLists(1, MaxPrefs), p2 \in TagLists(1, MaxPrefs),
          l1 \in ScoreLocations, l2 \in ScoreLocations :
          users = <<ProfiledUser(1, "a", p1, l1, 0), ProfiledUser(2, "b", p2, l2, 0)>>
    /\ roommates = (1 :> RoommateData(1200, "2023-09-01", "1 year", 89)) @@
                   (2 :> RoommateData(1350, "2023-08-15", "6+ months", 85))
    /\ listings = <<>>
    /\ messages = <<>>
    /\ conversations = <<>>
    /\ badges = <<>>
    /\ userId = 3
    /\ listingId = 1
    /\ messageId = 1
    /\ badgeId = 1
    /\ pending = <<>>
    /\ registering = <<>>
    /\ inflight = <<>>
    /\ now = 0
    /\ ret = NoCall

NextScore == \E uid \in 1..Len(users) : GetTopMatches(uid)

SpecScore == InitScore /\ [][NextScore]_vars

\* the requester of the getTopMatches call recorded in ret
Requester == users[ret.userId]

NoRepeat(s) == \A i, j \in 1..Len(s) : s[i] = s[j] => i = j

\* C4: the overall score is symmetric: the score an entry e gets from requester
\* a equals the score a gets when e is the requester, for any preference lists.
C4_OverallSymmetric ==
    ret.op = "getTopMatches" =>
        \A i \in 1..Len(ret.val) :
            LET back == getTopMatches(backend, users, roommates, ret.val[i].id)
            IN  \A j \in 1..Len(back) :
                    back[j].id = ret.userId =>
                        back[j].compatibilityScore = ret.val[i].compatibilityScore

\* C5: the lifestyle sub-score is round(100*C/T), C the size of the intersection
\* and T the size of the union of the two tag sets, and 50 when T = 0.
C5_LifestyleIsJaccard ==
    ret.op = "getTopMatches" =>
        \A i \in 1..Len(ret.val) :
            LET A == Range(Requester.preferences)
                B == Range(ret.val[i].preferences)
                C == Cardinality(A \cap B)
                T == Cardinality(A \cup B)
                score == ret.val[i].compatibilityDetails.lifestyleScore
            IN  /\ T = 0 => score = 50
                /\ T > 0 => 2 * T * score - T <= 200 * C /\ 200 * C < 2 * T * score + T

\* the scenario of C8: duplicate-free lists sharing exactly 2 of 4 distinct tags,
\* "Early bird" among the shared ones, and the same (non-empty) location
C8_Scenario(a, b) ==
    /\ NoRepeat(a.preferences) /\ NoRepeat(b.preferences)
    /\ Cardinality(Range(a.preferences) \cap Range(b.preferences)) = 2
    /\ Cardinality(Range(a.preferences) \cup Range(b.preferences)) = 4
    /\ "Early bird" \in Range(a.preferences) \cap Range(b.preferences)
    /\ TruthyText(a.location) /\ a.location = b.location

\* C8: the overall score is the weighted sum 0.5*lifestyle + 0.3*location +
\* 0.2*schedule rounded half up (the one integer n with n - 1/2 <= sum < n + 1/2),
\* and in the scenario the scores are 50, 100, 100 and overall 75.
C8_OverallRoundsWeightedSum ==
    ret.op = "getTopMatches" =>
        \A i \in 1..Len(ret.val) :
            LET d == ret.val[i].compatibilityDetails
                w == 5 * d.lifestyleScore + 3 * d.locationScore + 2 * d.scheduleScore
            IN  /\ 10 * d.overallScore - 5 <= w /\ w < 10 * d.overallScore + 5
                /\ ret.val[i].compatibilityScore = d.overallScore
                /\ C8_Scenario(Requester, ret.val[i]) =>
                       /\ d.lifestyleScore = 50 /\ d.locationScore = 100
                       /\ d.scheduleScore = 100 /\ d.overallScore = 75

\* the scenario of C8 has been scored
C8_Witness ==
    /\ ret.op = "getTopMatches"
    /\ Len(ret.val) = 1
    /\ C8_Scenario(Requester, ret.val[1])
    /\ ret.val[1].compatibilityScore = 75

----------------------------------------------------------------------------
(* Specification SpecLocation: the location sub-score on two roommates     *)
(* whose locations are absent, empty, any text of at most MaxLocLen        *)
(* characters over LocChars, or one of two Brooklyn addresses.             *)

MaxLocLen == 2

LocChars == {"N", "n", "y"}

LocationInputs ==
    {None} \cup {Some(t) : t \in SeqsUpTo(LocChars, MaxLocLen)}
           \cup {Some(BrooklynNY), Some(WilliamsburgBrooklyn)}

InitLocation ==
    /\ backend \in {"mem", "db"}
    /\ \E p1 \in {<<>>, <<"Early bird">>}, p2 \in {<<>>, <<"Night owl">>},
          l1 \in LocationInputs, l2 \in LocationInputs :
          users = <<ProfiledUser(1, "a", p1, l1, 0), ProfiledUser(2, "b", p2, l2, 0)>>
    /\ roommates = (1 :> RoommateData(1200, "2023-09-01", "1 year", 89)) @@
                   (2 :> RoommateData(1350, "2023-08-15", "6+ months", 85))
    /\ listings = <<>>
    /\ messages = <<>>
    /\ conversations = <<>>
    /\ badges = <<>>
    /\ userId = 3
    /\ listingId = 1
    /\ messageId = 1
    /\ badgeId = 1
    /\ pending = <<>>
    /\ registering = <<>>
    /\ inflight = <<>>
    /\ now = 0
    /\ ret = NoCall

NextLocation == \E uid \in 1..Len(users) : GetTopMatches(uid)

SpecLocation == InitLocation /\ [][NextLocation]_vars

\* a location as the claim normalizes it: lower case, an absent one empty
Normalized(loc) == IF IsSome(loc) THEN ToLowerCase(Get(loc)) ELSE <<>>

\* 100 for equal texts, else 75 when one contains the other, else 50
ThreeWay(a, b) ==
    IF a = b THEN 100
    ELSE IF Includes(a, b) \/ Includes(b, a) THEN 75 ELSE 50

\* C6 as stated: for every pair of locations, absent and empty ones included,
\* the location sub-score is 100 / 75 / 50 for equal / containing / other
\* normalized locations.
C6_Original ==
    ret.op = "getTopMatches" =>
        \A i \in 1..Len(ret.val) :
            ret.val[i].compatibilityDetails.locationScore =
                ThreeWay(Normalized(Requester.location), Normalized(ret.val[i].location))

\* C6 amended: when both locations are present and non-empty the location
\* sub-score is 100 / 75 / 50 for equal / containing / other lower-cased
\* locations; when either location is absent or empty it is 50.
C6_LocationScore ==
    ret.op = "getTopMatches" =>
        \A i \in 1..Len(ret.val) :
            ret.val[i].compatibilityDetails.locationScore =
                IF TruthyText(Requester.location) /\ TruthyText(ret.val[i].location)
                THEN ThreeWay(Normalized(Requester.location),
                              Normalized(ret.val[i].location))
                ELSE 50

\* locations that differ only in case have scored 100, and an empty one 50
C6_Witness ==
    /\ ret.op = "getTopMatches"
    /\ Len(ret.val) = 1
    /\ \/ /\ TruthyText(Requester.location)
          /\ Requester.location # ret.val[1].location
          /\ ret.val[1].compatibilityDetails.locationScore = 100
       \/ /\ Requester.location = Some(<<>>)
          /\ TruthyText(ret.val[1].location)
          /\ ret.val[1].compatibilityDetails.locationScore = 50

\* the two users of C7, one the requester and the other the scored entry
C7_Scenario(i) ==
    /\ ret.op = "getTopMatches"
    /\ i \in 1..Len(ret.val)
    /\ {Requester.location, ret.val[i].location} =
           {Some(BrooklynNY), Some(WilliamsburgBrooklyn)}

\* C7 as stated: "Brooklyn, NY" and "Williamsburg, Brooklyn" are a substring
\* match and score 75.
C7_Original ==
    \A i \in 1..2 :
        C7_Scenario(i) => ret.val[i].compatibilityDetails.locationScore = 75

\* C7 amended: neither of "brooklyn, ny" and "williamsburg, brooklyn" contains
\* the other, so the two users are no substring match and score 50.
C7_BrooklynScores50 ==
    \A i \in 1..2 :
        C7_Scenario(i) =>
            /\ ~Includes(Normalized(Requester.location), Normalized(ret.val[i].location))
            /\ ~Includes(Normalized(ret.val[i].location), Normalized(Requester.location))
            /\ ret.val[i].compatibilityDetails.locationScore = 50

\* the two users of C7 have been scored
C7_Witness == C7_Scenario(1)

----------------------------------------------------------------------------
(* Specification SpecTop: getTopMatches on a store of MaxRoommates users,  *)
(* all of them roommates or all but the last.                              *)

MaxRoommates == 8

\* the profiles of the store: preferences and location
TopProfiles ==
    { [preferences |-> <<"Early bird", "Clean">>, location |-> Some(NY)],
      [preferences |-> <<"Night owl">>, location |-> Some(NYUS)] }

InitTop ==
    /\ backend \in {"mem", "db"}
    /\ \E profile \in [1..MaxRoommates -> TopProfiles] :
          users = [i \in 1..MaxRoommates |->
                     ProfiledUser(i, <<"user", i>>, profile[i].preferences,
                                  profile[i].location, 0)]
    /\ \E last \in {MaxRoommates - 1, MaxRoommates} :
          roommates = [i \in 1..last |-> RoommateData(1200, "2023-09-01", "1 year", 89)]
    /\ listings = <<>>
    /\ messages = <<>>
    /\ conversations = <<>>
    /\ badges = <<>>
    /\ userId = MaxRoommates + 1
    /\ listingId = 1
    /\ messageId = 1
    /\ badgeId = 1
    /\ pending = <<>>
    /\ registering = <<>>
    /\ inflight = <<>>
    /\ now = 0
    /\ ret = NoCall

NextTop == \E uid \in 1..Len(users) : GetTopMatches(uid)

SpecTop == InitTop /\ [][NextTop]_vars

\* the position of each roommate in the unfiltered getRoommates() result
RoommatePosition ==
    LET all == getRoommates(backend, users, roommates, None)
    IN  [id \in {all[i].id : i \in 1..Len(all)} |->
            CHOOSE i \in 1..Len(all) : all[i].id = id]

----------------------------------------------------------------------------
(* Listings: createListing, getListings, getListingById.                   *)
(* A field the caller leaves out (undefined) is None.  availableFrom and   *)
(* "today" are dates, compared as the code compares their ISO texts.       *)

\* `${firstName || ''} ${lastName || ''}`.trim() || username: the non-empty
\* name parts in order, or the username when there is none
DisplayName(user) ==
    LET parts == SelectSeq(<<user.firstName, user.lastName>>, TruthyStr)
    IN  IF parts = <<>> THEN <<user.username>>
        ELSE [i \in 1..Len(parts) |-> Get(parts[i])]

\* the userName the database backend adds to a row: undefined for no user
UserNameOf(us, uid) == IF uid \in 1..Len(us) THEN Some(DisplayName(us[uid])) ELSE None

\* new Date().toISOString().split('T')[0]
Today(t) == t

\* ListingFilters with every field absent
NoListingFilters ==
    [location |-> None, minPrice |-> None, maxPrice |-> None, roomType |-> None,
     amenities |-> None, availableNow |-> None]

\* MemStorage.createListing: the record stored and returned
MemNewListing(id, uid, listing, t) ==
    [id |-> id, userId |-> uid,
     title |-> listing.title, description |-> listing.description,
     location |-> listing.location, price |-> listing.price,
     roomType |-> listing.roomType, roommates |-> listing.roommates,
     availableFrom |-> listing.availableFrom,
     amenities |-> IF IsSome(listing.amenities) THEN Get(listing.amenities) ELSE <<>>,
     images |-> IF IsSome(listing.images) THEN Get(listing.images) ELSE <<>>,
     isFeatured |-> IF IsSome(listing.isFeatured) THEN Get(listing.isFeatured) ELSE FALSE,
     isPublic |-> listing.isPublic,
     rating |-> IF IsSome(listing.rating) THEN Get(listing.rating) ELSE 0,
     createdAt |-> t]

\* DatabaseStorage.createListing: the row inserted; a column left out takes its
\* default (is_public: true)
DbNewListing(id, uid, listing, t) ==
    [id |-> id, userId |-> uid,
     title |-> listing.title, description |-> listing.description,
     location |-> listing.location, price |-> listing.price,
     roomType |-> listing.roomType,
     roommates |-> IF IsSome(listing.roommates) THEN listing.roommates ELSE Some(0),
     availableFrom |-> listing.availableFrom,
     amenities |-> IF IsSome(listing.amenities) THEN Get(listing.amenities) ELSE <<>>,
     images |-> IF IsSome(listing.images) THEN Get(listing.images) ELSE <<>>,
     isFeatured |-> FALSE,
     isPublic |-> IF IsSome(listing.isPublic) THEN listing.isPublic ELSE Some(TRUE),
     rating |-> 0,
     createdAt |-> t]

\* a row with the owner's display name added
WithUserName(us, l) == [userName |-> UserNameOf(us, l.userId)] @@ l

\* a variant in which every listing passes the visibility filter
MemIsVisibleToAll(l, currentUserId) == TRUE

\* MemStorage.getListings, the visibility filter: public, or owned by a
\* defined current user
MemIsVisible(l, currentUserId) ==
    l.isPublic = Some(TRUE) \/
    (IsSome(currentUserId) /\ l.userId = Get(currentUserId))

\* MemStorage.getListings
MemGetListings(ls, filters, currentUserId, t) ==
    LET visible == SelectSeq(ls, LAMBDA l : MemIsVisible(l, currentUserId))
        f == Get(filters)
        byLocation(s) ==
            IF TruthyText(f.location)
            THEN SelectSeq(s, LAMBDA l :
                     Includes(ToLowerCase(l.location), ToLowerCase(Get(f.location))))
            ELSE s
        byMinPrice(s) ==
            IF IsSome(f.minPrice)
            THEN SelectSeq(s, LAMBDA l : l.price >= Get(f.minPrice))
            ELSE s
        byMaxPrice(s) ==
            IF IsSome(f.maxPrice)
            THEN SelectSeq(s, LAMBDA l : l.price <= Get(f.maxPrice))
            ELSE s
        byRoomType(s) ==
            IF TruthyStr(f.roomType)
            THEN SelectSeq(s, LAMBDA l : l.roomType = Get(f.roomType))
            ELSE s
        byAmenities(s) ==
            IF IsSome(f.amenities) /\ Len(Get(f.amenities)) > 0
            THEN SelectSeq(s, LAMBDA l :
                     \E i \in 1..Len(Get(f.amenities)) :
                         Contains(l.amenities, Get(f.amenities)[i]))
            ELSE s
        byAvailable(s) ==
            IF f.availableNow = Some(TRUE)
            THEN SelectSeq(s, LAMBDA l : l.availableFrom <= Today(t))
            ELSE s
    IN  IF IsSome(filters)
        THEN byAvailable(byAmenities(byRoomType(byMaxPrice(byMinPrice(byLocation(visible))))))
        ELSE visible

\* DatabaseStorage.getListings: one WHERE of AND-ed conditions (LIKE is
\* case-sensitive; a falsy currentUserId adds no owner condition), then the
\* amenities filter in code, then the userName; rows are taken in id order
DbGetListings(us, ls, filters, currentUserId, t) ==
    LET f == Get(filters)
        where(l) ==
            /\ \/ l.isPublic = Some(TRUE)
               \/ IsSome(currentUserId) /\ Get(currentUserId) # 0 /\
                  l.userId = Get(currentUserId)
            /\ IsSome(filters) =>
                 /\ TruthyText(f.location) => Includes(l.location, Get(f.location))
                 /\ IsSome(f.minPrice) => l.price >= Get(f.minPrice)
                 /\ IsSome(f.maxPrice) => l.price <= Get(f.maxPrice)
                 /\ TruthyStr(f.roomType) => l.roomType = Get(f.roomType)
                 /\ f.availableNow = Some(TRUE) => l.availableFrom <= Today(t)
        results == SelectSeq(ls, where)
        filteredResults ==
            IF IsSome(filters) /\ IsSome(f.amenities) /\ Len(Get(f.amenities)) > 0
            THEN SelectSeq(results, LAMBDA l :
                     \E i \in 1..Len(Get(f.amenities)) :
                         Contains(l.amenities, Get(f.amenities)[i]))
            ELSE results
    IN  [i \in 1..Len(filteredResults) |-> WithUserName(us, filteredResults[i])]

\* a variant that returns a private listing to nobody, its owner included
MemGetListingByIdPublicOnly(ls, id, currentUserId) ==
    IF id \in 1..Len(ls) /\ ls[id].isPublic = Some(TRUE) THEN Some(ls[id]) ELSE None

\* MemStorage.getListingById: Some(listing) or None (undefined)
MemGetListingById(ls, id, currentUserId) ==
    IF id \notin 1..Len(ls) THEN None
    ELSE IF ls[id].isPublic = Some(TRUE) \/
            (IsSome(currentUserId) /\ ls[id].userId = Get(currentUserId))
         THEN Some(ls[id])
         ELSE None

\* DatabaseStorage.getListingById
DbGetListingById(us, ls, id, currentUserId) ==
    IF id \notin 1..Len(ls) THEN None
    ELSE IF ls[id].isPublic # Some(TRUE) /\
            (~(IsSome(currentUserId) /\ Get(currentUserId) # 0) \/
             ls[id].userId # Get(currentUserId))
         THEN None
         ELSE Some(WithUserName(us, ls[id]))

CreateListing(uid, listing) ==
    /\ listings' = Append(listings,
                          IF backend = "mem"
                          THEN MemNewListing(listingId, uid, listing, now)
                          ELSE DbNewListing(listingId, uid, listing, now))
    /\ listingId' = listingId + 1
    /\ ret' = [op |-> "createListing", userId |-> uid, listing |-> listing,
               val |-> IF backend = "mem" THEN listings'[listingId]
                       ELSE WithUserName(users, listings'[listingId])]
    /\ UNCHANGED <<backend, inflight, pending, registering, users, roommates, messages, conversations, badges,
                   userId, messageId, badgeId, now>>

GetListings(filters, currentUserId) ==
    /\ ret' = [op |-> "getListings", filters |-> filters, currentUserId |-> currentUserId,
               val |-> IF backend = "mem"
                       THEN MemGetListings(listings, filters, currentUserId, now)
                       ELSE DbGetListings(users, listings, filters, currentUserId, now)]
    /\ UNCHANGED <<backend, inflight, pending, registering, users, roommates, listings, messages, conversations,
                   badges, userId, listingId, messageId, badgeId, now>>

GetListingById(id, currentUserId) ==
    /\ ret' = [op |-> "getListingById", id |-> id, currentUserId |-> currentUserId,
               val |-> IF backend = "mem"
                       THEN MemGetListingById(listings, id, currentUserId)
                       ELSE DbGetListingById(users, listings, id, currentUserId)]
    /\ UNCHANGED <<backend, inflight, pending, registering, users, roommates, listings, messages, conversations,
                   badges, userId, listingId, messageId, badgeId, now>>

----------------------------------------------------------------------------
(* Specification SpecListings: the seeded store, up to MaxNewListings      *)
(* createListing calls, and the listing reads by every kind of viewer.     *)

MaxNewListings == 1

SeedListing(id, uid, title, location, price, roommatesCount, amenities, rating, t) ==
    [id |-> id, userId |-> uid, title |-> title, description |-> "description",
     location |-> location, price |-> price, roomType |-> "Private Room",
     roommates |-> Some(roommatesCount), availableFrom |-> 0, amenities |-> amenities,
     images |-> <<"image">>, isFeatured |-> TRUE, isPublic |-> Some(TRUE),
     rating |-> rating, createdAt |-> t]

\* MemStorage.seedData stores ratings 48, 46, 49; the seed script inserts 5
SeedListings(be, t) ==
    << SeedListing(1, 1, "Modern Studio Apartment", EastVillageNewYork, 1200, 1,
                   <<"Furnished", "Utilities Included", "WiFi">>,
                   IF be = "mem" THEN 48 ELSE 5, t),
       SeedListing(2, 2, "Spacious Room in Shared Apartment", WilliamsburgBrooklyn, 950, 2,
                   <<"Partially Furnished", "Laundry", "Balcony">>,
                   IF be = "mem" THEN 46 ELSE 5, t),
       SeedListing(3, 3, "Cozy Room in Brownstone", ParkSlopeBrooklyn, 1100, 3,
                   <<"Furnished", "Garden Access", "Pets Allowed">>,
                   IF be = "mem" THEN 49 ELSE 5, t) >>

Brooklyn == <<"B", "r", "o", "o", "k", "l", "y", "n">>

\* what a caller passes to createListing, but for isPublic
ListingTemplates ==
    { [title |-> "Room", description |-> "d", location |-> WilliamsburgBrooklyn,
       price |-> 900, roomType |-> "Private Room", roommates |-> Some(2),
       availableFrom |-> 1, amenities |-> Some(<<"WiFi">>), images |-> None,
       isFeatured |-> None, rating |-> None],
      [title |-> "Loft", description |-> "d", location |-> EastVillageNewYork,
       price |-> 1500, roomType |-> "Shared Room", roommates |-> None,
       availableFrom |-> 9, amenities |-> None, images |-> Some(<<"image">>),
       isFeatured |-> Some(TRUE), rating |-> Some(50)] }

ListingInputs ==
    {[isPublic |-> p] @@ l : p \in {None, Some(TRUE), Some(FALSE)}, l \in ListingTemplates}

\* the users who create listings
ListingOwners == {1, 2}

\* the viewers: no viewer, the id 0, the owners, a third user
Viewers == {None, Some(0), Some(1), Some(2), Some(3)}

ListingFilterInputs ==
    { None,
      Some(NoListingFilters),
      Some([NoListingFilters EXCEPT !.location = Some(ToLowerCase(Brooklyn))]),
      Some([NoListingFilters EXCEPT !.maxPrice = Some(1000)]),
      Some([NoListingFilters EXCEPT !.roomType = Some("Private Room"),
                                    !.amenities = Some(<<"WiFi", "Laundry">>)]),
      Some([NoListingFilters EXCEPT !.minPrice = Some(1000),
                                    !.availableNow = Some(TRUE)]) }

InitListings ==
    /\ backend \in {"mem", "db"}
    /\ now = 3
    /\ users = SeedUsers(now)
    /\ roommates = SeedRoommates
    /\ listings = SeedListings(backend, now)
    /\ messages = <<>>
    /\ conversations = <<>>
    /\ badges = <<>>
    /\ userId = 4
    /\ listingId = 4
    /\ messageId = 1
    /\ badgeId = 1
    /\ pending = <<>>
    /\ registering = <<>>
    /\ inflight = <<>>
    /\ ret = NoCall

NextListings ==
    \/ \E uid \in ListingOwners, listing \in ListingInputs :
          Len(listings) < 3 + MaxNewListings /\ CreateListing(uid, listing)
    \/ \E filters \in ListingFilterInputs, viewer \in Viewers :
          GetListings(filters, viewer)
    \/ \E id \in 1..(Len(listings) + 1), viewer \in Viewers :
          GetListingById(id, viewer)

SpecListings == InitListings /\ [][NextListings]_vars

\* isVisible(listing, viewerId) of the specification: public, or owned by a
\* defined viewer
IsVisible(l, viewer) ==
    l.isPublic = Some(TRUE) \/ (IsSome(viewer) /\ l.userId = Get(viewer))

\* a returned listing without the userName the database backend adds
StoredFields(l) == [k \in DOMAIN l \ {"userName"} |-> l[k]]

\* C1: getListingById(L.id, v) returns L when L is public or v owns it, and
\* undefined when L is private and v is another user or undefined - as it does
\* for an id that no listing has.
C1_ListingByIdVisibility ==
    ret.op = "getListingById" =>
        IF ret.id \in 1..Len(listings) /\ IsVisible(listings[ret.id], ret.currentUserId)
        THEN IsSome(ret.val) /\ StoredFields(Get(ret.val)) = listings[ret.id]
        ELSE ret.val = None

\* a private listing has been asked for by its owner and returned, or by
\* someone else and not found
C1_Witness ==
    /\ ret.op = "getListingById"
    /\ ret.id \in 1..Len(listings)
    /\ listings[ret.id].isPublic = Some(FALSE)
    /\ \/ ret.currentUserId = Some(listings[ret.id].userId) /\ IsSome(ret.val)
       \/ ret.currentUserId = Some(3) /\ ret.val = None

\* a filter argument that constrains nothing
NoConstraint(filters) ==
    filters = None \/ filters = Some(NoListingFilters)

\* C2: getListings(filters, viewer) returns only stored listings that are public
\* or owned by viewer, and with no filters every such listing (in store order).
C2_ListingsVisibility ==
    ret.op = "getListings" =>
        /\ \A i \in 1..Len(ret.val) :
              /\ ret.val[i].id \in 1..Len(listings)
              /\ StoredFields(ret.val[i]) = listings[ret.val[i].id]
              /\ IsVisible(listings[ret.val[i].id], ret.currentUserId)
        /\ NoConstraint(ret.filters) =>
              [i \in 1..Len(ret.val) |-> ret.val[i].id] =
                  SelectSeq([i \in 1..Len(listings) |-> i],
                            LAMBDA id : IsVisible(listings[id], ret.currentUserId))

\* an unfiltered getListings by the owner of a private listing returned it,
\* and left out someone else's listing that is not public
C2_Witness ==
    /\ ret.op = "getListings"
    /\ NoConstraint(ret.filters)
    /\ \E i \in 1..Len(ret.val) :
          listings[ret.val[i].id].isPublic = Some(FALSE) /\
          ret.currentUserId = Some(ret.val[i].userId)

----------------------------------------------------------------------------
(* Messages: createMessage, getMessages.                                   *)
(* read is None when the caller leaves it out (undefined).                 *)

SeedMessage(id, senderId, receiverId, content, read, timestamp) ==
    [id |-> id, senderId |-> senderId, receiverId |-> receiverId,
     content |-> content, read |-> Some(read), timestamp |-> timestamp]

\* three messages between users 1 and 2, sent 3, 2 and 1 days before t
SeedMessages(t) ==
    << SeedMessage(1, 1, 2, "Hi! I saw your profile", TRUE, t - 3),
       SeedMessage(2, 2, 1, "Hey Sarah! Yes, I'm still looking", TRUE, t - 2),
       SeedMessage(3, 1, 2, "Definitely! I noticed we both prefer", FALSE, t - 1) >>

\* [user1Id, user2Id].sort().join('-'): the pair in order (ids of one digit)
getConversationKey(user1Id, user2Id) ==
    IF user1Id <= user2Id THEN <<user1Id, user2Id>> ELSE <<user2Id, user1Id>>

SeedConversations(t) == (getConversationKey(1, 2) :> [lastMessageId |-> 3, updatedAt |-> t - 1])

\* a variant that keeps only the messages the first user sent to the second
BetweenOneWay(ms, uid, otherUserId) ==
    SelectSeq(ms, LAMBDA m : m.senderId = uid /\ m.receiverId = otherUserId)

\* the messages exchanged by the two users, in either direction (Array.filter /
\* the WHERE clause of the select)
Between(ms, uid, otherUserId) ==
    SelectSeq(ms, LAMBDA m :
        \/ m.senderId = uid /\ m.receiverId = otherUserId
        \/ m.senderId = otherUserId /\ m.receiverId = uid)

RECURSIVE InsertByTime(_, _)
\* m placed behind every element of the sorted s whose timestamp is not larger
InsertByTime(s, m) ==
    IF s = <<>> THEN <<m>>
    ELSE IF Head(s).timestamp <= m.timestamp
         THEN <<Head(s)>> \o InsertByTime(Tail(s), m)
         ELSE <<m>> \o s

RECURSIVE SortByTimeAsc(_)
\* Array.prototype.sort((a, b) => a.timestamp - b.timestamp): ascending, stable
SortByTimeAsc(s) ==
    IF s = <<>> THEN <<>>
    ELSE InsertByTime(SortByTimeAsc(SubSeq(s, 1, Len(s) - 1)), s[Len(s)])

\* MemStorage.getMessages: the result; the store is left as it is
MemGetMessages(ms, uid, otherUserId) == SortByTimeAsc(Between(ms, uid, otherUserId))

RECURSIVE OrdersByTime(_)
\* ORDER BY timestamp ASC over a set of rows: every order the database may
\* produce, rows of equal timestamp in any order
OrdersByTime(rows) ==
    IF rows = {} THEN {<<>>}
    ELSE UNION { {<<m>> \o rest : rest \in OrdersByTime(rows \ {m})} :
                 m \in {r \in rows : \A q \in rows : r.timestamp <= q.timestamp} }

\* the senderName the database backend adds to a message
WithSenderName(us, m) == [senderName |-> UserNameOf(us, m.senderId)] @@ m

\* DatabaseStorage.getMessages: the results the select may return, each row
\* as read before the update, with the sender's name
DbGetMessages(us, ms, uid, otherUserId) ==
    { [i \in 1..Len(order) |-> WithSenderName(us, order[i])] :
      order \in OrdersByTime(Range(Between(ms, uid, otherUserId))) }

\* DatabaseStorage.getMessages: UPDATE messages SET read = true WHERE
\* sender = otherUserId AND receiver = userId AND read = false
DbMarkRead(ms, uid, otherUserId) ==
    [i \in 1..Len(ms) |->
        IF ms[i].senderId = otherUserId /\ ms[i].receiverId = uid /\
           ms[i].read = Some(FALSE)
        THEN [ms[i] EXCEPT !.read = Some(TRUE)]
        ELSE ms[i]]

GetMessages(uid, otherUserId) ==
    /\ \E val \in IF backend = "mem"
                  THEN {MemGetMessages(messages, uid, otherUserId)}
                  ELSE DbGetMessages(users, messages, uid, otherUserId) :
          ret' = [op |-> "getMessages", userId |-> uid, otherUserId |-> otherUserId,
                  val |-> val]
    /\ messages' = IF backend = "mem" THEN messages
                   ELSE DbMarkRead(messages, uid, otherUserId)
    /\ UNCHANGED <<backend, inflight, pending, registering, users, roommates, listings, conversations, badges,
                   userId, listingId, messageId, badgeId, now>>

\* MemStorage.createMessage: the record stored and returned
MemNewMessage(id, message, t) ==
    [id |-> id, senderId |-> message.senderId, receiverId |-> message.receiverId,
     content |-> message.content, read |-> message.read, timestamp |-> t]

\* DatabaseStorage.createMessage: the row inserted; read left out becomes false,
\* the timestamp is the column default now()
DbNewMessage(id, message, t) ==
    [id |-> id, senderId |-> message.senderId, receiverId |-> message.receiverId,
     content |-> message.content,
     read |-> IF message.read = None THEN Some(FALSE) ELSE message.read,
     timestamp |-> t]

\* the conversation pointer of the pair set to the new message
SetConversation(cs, message, id, t) ==
    LET key == getConversationKey(message.senderId, message.receiverId)
    IN  [k \in DOMAIN cs \cup {key} |->
            IF k = key THEN [lastMessageId |-> id, updatedAt |-> t] ELSE cs[k]]

\* MemStorage.createMessage
MemCreateMessage(message) ==
    /\ messages' = Append(messages, MemNewMessage(messageId, message, now))
    /\ messageId' = messageId + 1
    /\ conversations' = SetConversation(conversations, message, messageId, now)
    /\ ret' = [op |-> "createMessage", message |-> message, ok |-> TRUE,
               conversationOk |-> TRUE, val |-> messages'[Len(messages')]]

\* a variant that rethrows a failure of the conversation update: the row stays
\* inserted and the caller gets the error
DbCreateMessageRethrow(message, conversationOk) ==
    IF message.senderId \in 1..Len(users) /\ message.receiverId \in 1..Len(users)
    THEN /\ messages' = Append(messages, DbNewMessage(messageId, message, now))
         /\ messageId' = messageId + 1
         /\ conversations' = IF conversationOk
                             THEN SetConversation(conversations, message, messageId, now)
                             ELSE conversations
         /\ ret' = IF conversationOk
                   THEN [op |-> "createMessage", message |-> message, ok |-> TRUE,
                         conversationOk |-> conversationOk,
                         val |-> WithSenderName(users, messages'[Len(messages')])]
                   ELSE [op |-> "createMessage", message |-> message, ok |-> FALSE,
                         conversationOk |-> conversationOk]
    ELSE /\ ret' = [op |-> "createMessage", message |-> message, ok |-> FALSE,
                    conversationOk |-> conversationOk]
         /\ UNCHANGED <<messages, messageId, conversations>>

\* DatabaseStorage.createMessage: the insert fails on a sender or receiver that
\* is no user (foreign keys) and the error is rethrown; a failure of the
\* conversation update (conversationOk = FALSE) is logged and swallowed
DbCreateMessage(message, conversationOk) ==
    IF message.senderId \in 1..Len(users) /\ message.receiverId \in 1..Len(users)
    THEN /\ messages' = Append(messages, DbNewMessage(messageId, message, now))
         /\ messageId' = messageId + 1
         /\ conversations' = IF conversationOk
                             THEN SetConversation(conversations, message, messageId, now)
                             ELSE conversations
         /\ ret' = [op |-> "createMessage", message |-> message, ok |-> TRUE,
                    conversationOk |-> conversationOk,
                    val |-> WithSenderName(users, messages'[Len(messages')])]
    ELSE /\ ret' = [op |-> "createMessage", message |-> message, ok |-> FALSE,
                    conversationOk |-> conversationOk]
         /\ UNCHANGED <<messages, messageId, conversations>>

CreateMessage(message, conversationOk) ==
    /\ IF backend = "mem"
       THEN conversationOk /\ MemCreateMessage(message)
       ELSE DbCreateMessage(message, conversationOk)
    /\ UNCHANGED <<backend, inflight, pending, registering, users, roommates, listings, badges, userId, listingId,
                   badgeId, now>>

\* the other party of a message of user uid
PartnerOf(m, uid) == IF m.senderId = uid THEN m.receiverId ELSE m.senderId

\* the messages user uid sent or received
UserMessages(ms, uid) == SelectSeq(ms, LAMBDA m : m.senderId = uid \/ m.receiverId = uid)

RECURSIVE PartnersInOrder(_, _)
\* the Set of conversation partners, iterated in insertion order: each partner
\* at the place of the first message with them
PartnersInOrder(ums, uid) ==
    IF ums = <<>> THEN <<>>
    ELSE LET before == PartnersInOrder(SubSeq(ums, 1, Len(ums) - 1), uid)
             p == PartnerOf(ums[Len(ums)], uid)
         IN  IF Contains(before, p) THEN before ELSE Append(before, p)

\* MemStorage.getConversations: the entry built for one partner from the last of
\* getMessages(userId, partnerId)
MemConversation(us, ms, uid, partnerId) ==
    LET msgs == MemGetMessages(ms, uid, partnerId)
        latestMessage == msgs[Len(msgs)]
    IN  [userId |-> partnerId, name |-> DisplayName(us[partnerId]),
         profileImage |-> us[partnerId].profileImage,
         lastMessage |-> latestMessage.content,
         lastMessageTime |-> latestMessage.timestamp,
         read |-> IF latestMessage.senderId = uid THEN Some(TRUE) ELSE latestMessage.read]

RECURSIVE InsertByLastDesc(_, _)
\* c placed behind every element of the sorted s whose lastMessageTime is not
\* smaller
InsertByLastDesc(s, c) ==
    IF s = <<>> THEN <<c>>
    ELSE IF Head(s).lastMessageTime >= c.lastMessageTime
         THEN <<Head(s)>> \o InsertByLastDesc(Tail(s), c)
         ELSE <<c>> \o s

\* a variant that leaves the entries in the order of the partners
SortByLastKeep(s) == s

RECURSIVE SortByLastDesc(_)
\* sort((a, b) => b.lastMessageTime - a.lastMessageTime): descending, stable
SortByLastDesc(s) ==
    IF s = <<>> THEN <<>>
    ELSE InsertByLastDesc(SortByLastDesc(SubSeq(s, 1, Len(s) - 1)), s[Len(s)])

\* MemStorage.getConversations: partners that are no users are skipped
MemGetConversations(us, ms, uid) ==
    LET partners == SelectSeq(PartnersInOrder(UserMessages(ms, uid), uid),
                              LAMBDA p : p \in 1..Len(us))
    IN  SortByLastDesc([i \in 1..Len(partners) |->
                           MemConversation(us, ms, uid, partners[i])])

\* DatabaseStorage.getConversations: the messages the descending stable sort may
\* put first, the select giving its rows in no stated order
DbLatestMessages(ms, uid, partnerId) ==
    {m \in Range(Between(ms, uid, partnerId)) :
        \A q \in Range(Between(ms, uid, partnerId)) : q.timestamp <= m.timestamp}

\* DatabaseStorage.getConversations: the entry built for one partner from the
\* latest message
DbConversation(us, uid, partnerId, latestMessage) ==
    [userId |-> partnerId, name |-> DisplayName(us[partnerId]),
     profileImage |-> IF TruthyStr(us[partnerId].profileImage)
                      THEN us[partnerId].profileImage ELSE None,
     lastMessage |-> latestMessage.content,
     lastMessageTime |-> latestMessage.timestamp,
     read |-> Some(latestMessage.senderId = uid \/ latestMessage.read = Some(TRUE))]

RECURSIVE OrdersByLastDesc(_)
\* the sorted results over a set of entries, entries of equal lastMessageTime
\* in any order
OrdersByLastDesc(rows) ==
    IF rows = {} THEN {<<>>}
    ELSE UNION { {<<c>> \o rest : rest \in OrdersByLastDesc(rows \ {c})} :
                 c \in {r \in rows : \A q \in rows : r.lastMessageTime >= q.lastMessageTime} }

\* DatabaseStorage.getConversations: the results it may return
DbGetConversations(us, ms, uid) ==
    LET ums == UserMessages(ms, uid)
        partners == {p \in {PartnerOf(ums[i], uid) : i \in 1..Len(ums)} : p \in 1..Len(us)}
        choices == {f \in [partners -> Range(ms)] :
                       \A p \in partners : f[p] \in DbLatestMessages(ms, uid, p)}
    IN  UNION { OrdersByLastDesc({DbConversation(us, uid, p, f[p]) : p \in partners}) :
                f \in choices }

GetConversations(uid) ==
    /\ \E val \in IF backend = "mem"
                  THEN {MemGetConversations(users, messages, uid)}
                  ELSE DbGetConversations(users, messages, uid) :
          ret' = [op |-> "getConversations", userId |-> uid, val |-> val]
    /\ UNCHANGED <<backend, inflight, pending, registering, users, roommates, listings, messages,
                   conversations, badges, userId, listingId, messageId, badgeId, now>>

\* time passes between two calls
Tick ==
    /\ now' = now + 1
    /\ UNCHANGED <<backend, inflight, pending, registering, users, roommates, listings, messages, conversations,
                   badges, userId, listingId, messageId, badgeId, ret>>

----------------------------------------------------------------------------
(* Specification SpecMessages: the seeded store, up to MaxNewMessages      *)
(* createMessage calls at the same or at later clock readings, and         *)
(* getMessages by every user about every user.                             *)

MaxNewMessages == 1

MaxTicks == 1

MessageInputs ==
    [senderId : {1, 2}, receiverId : {1, 2, 3}, content : {"hi"},
     read : {None, Some(FALSE), Some(TRUE)}]

InitMessages ==
    /\ backend \in {"mem", "db"}
    /\ now = 3
    /\ users = SeedUsers(now)
    /\ roommates = SeedRoommates
    /\ listings = <<>>
    /\ messages = SeedMessages(now)
    /\ conversations = SeedConversations(now)
    /\ badges = <<>>
    /\ userId = 4
    /\ listingId = 1
    /\ messageId = 4
    /\ badgeId = 1
    /\ pending = <<>>
    /\ registering = <<>>
    /\ inflight = <<>>
    /\ ret = NoCall

NextMessages ==
    \/ \E message \in MessageInputs, conversationOk \in BOOLEAN :
          Len(messages) < 3 + MaxNewMessages /\ CreateMessage(message, conversationOk)
    \/ \E uid \in 1..Len(users), otherUserId \in 1..Len(users) :
          GetMessages(uid, otherUserId)
    \/ \E uid \in 1..Len(users) : GetConversations(uid)
    \/ now < 3 + MaxTicks /\ Tick

SpecMessages == InitMessages /\ [][NextMessages]_vars

\* the stored messages, by position, whose sender and receiver are a and b in
\* either order
PairMessages(a, b) ==
    {i \in 1..Len(messages) : {messages[i].senderId, messages[i].receiverId} = {a, b}}

\* C9 (as stated): after getMessages(u, o) every stored message sent by o to u
\* has read = true.
C9_GetMessagesMarksRead ==
    ret.op = "getMessages" =>
        \A i \in 1..Len(messages) :
            (messages[i].senderId = ret.otherUserId /\ messages[i].receiverId = ret.userId)
                => messages[i].read = Some(TRUE)

\* what identifies a message and never changes once it is stored
Sent(m) ==
    [id |-> m.id, senderId |-> m.senderId, receiverId |-> m.receiverId,
     content |-> m.content, timestamp |-> m.timestamp]

\* getMessages(A, B) has returned each stored message between A and B once,
\* and nothing else, in ascending timestamp order
C10_Exactly ==
    ret.op = "getMessages" =>
        /\ {ret.val[i].id : i \in 1..Len(ret.val)} = PairMessages(ret.userId, ret.otherUserId)
        /\ Len(ret.val) = Cardinality(PairMessages(ret.userId, ret.otherUserId))
        /\ \A i \in 1..Len(ret.val) : Sent(ret.val[i]) = Sent(messages[ret.val[i].id])
        /\ \A i, j \in 1..Len(ret.val) :
              i < j => ret.val[i].timestamp <= ret.val[j].timestamp

\* a step from createMessage(A, B, content), the first message of the pair, to
\* getMessages(A, B) returns that one message
C10_RoundTripStep ==
    ( /\ ret.op = "createMessage"
      /\ ret.ok
      /\ Cardinality(PairMessages(ret.message.senderId, ret.message.receiverId)) = 1
      /\ ret'.op = "getMessages"
      /\ ret'.userId = ret.message.senderId
      /\ ret'.otherUserId = ret.message.receiverId )
    => /\ Len(ret'.val) = 1
       /\ ret'.val[1].content = ret.message.content
       /\ ret'.val[1].senderId = ret.message.senderId
       /\ ret'.val[1].receiverId = ret.message.receiverId

\* C10: getMessages(A, B) returns exactly the stored messages between A and B in
\* either direction, in ascending timestamp order; createMessage(A, B, "hi") for
\* a pair without messages followed by getMessages(A, B) yields that one
\* message, with content "hi", sender A and receiver B.
C10_MessagesBetween == []C10_Exactly /\ [][C10_RoundTripStep]_vars

\* getMessages(1, 3) has returned the single message "hi" that user 1 sent to
\* user 3, with whom there was no message before
C10_Witness ==
    /\ ret.op = "getMessages"
    /\ ret.userId = 1
    /\ ret.otherUserId = 3
    /\ Len(ret.val) = 1
    /\ ret.val[1].content = "hi"
    /\ ret.val[1].senderId = 1
    /\ ret.val[1].receiverId = 3

----------------------------------------------------------------------------
(* Users, profile completion and badges: createUser, updateUserProfile,    *)
(* awardBadge, getUserBadges, calculateProfileCompletion.                  *)
(* A partial profile is a record holding just the fields supplied.  Each   *)
(* storage call is taken as one step, except what MemStorage leaves        *)
(* running when calculateProfileCompletion returns: it does not await      *)
(* checkProfileCompletionBadges, whose awards therefore happen in later    *)
(* steps (pending), one award per step.                                    *)

\* some stored user has the username (getUserByUsername finds one; the UNIQUE
\* constraint of users.username)
UsernameTaken(us, username) == \E i \in 1..Len(us) : us[i].username = username

\* createUser: MemStorage stores the user whatever the username; the database
\* rejects a username that exists (users_username_unique) and the error is
\* thrown to the caller
CreateUser(insertUser) ==
    /\ IF backend = "db" /\ UsernameTaken(users, insertUser.username)
       THEN /\ ret' = [op |-> "createUser", insertUser |-> insertUser, ok |-> FALSE]
            /\ UNCHANGED <<users, userId>>
       ELSE /\ users' = Append(users, NewUser(userId, insertUser.username,
                                               insertUser.password, now))
            /\ userId' = userId + 1
            /\ ret' = [op |-> "createUser", insertUser |-> insertUser, ok |-> TRUE,
                       val |-> users'[Len(users')]]
    /\ UNCHANGED <<backend, inflight, pending, registering, roommates, listings, messages,
                   conversations, badges, listingId, messageId, badgeId, now>>

\* a variant of the merge that also resets the stored completion
MergeProfileResetCompletion(user, profile) ==
    [k \in DOMAIN user |->
        IF k \in DOMAIN profile THEN profile[k]
        ELSE IF k = "profileCompletion" THEN 0 ELSE user[k]]

\* { ...user, ...profile } / UPDATE users SET profile: the supplied fields
\* replace the stored ones
MergeProfile(user, profile) ==
    [k \in DOMAIN user |-> IF k \in DOMAIN profile THEN profile[k] ELSE user[k]]

\* updateUserProfile; for a partial with no field at all the query builder of
\* the database backend may refuse to build the UPDATE (accepted = FALSE)
UpdateUserProfile(id, profile, accepted) ==
    /\ accepted \/ (backend = "db" /\ DOMAIN profile = {})
    /\ IF id \in 1..Len(users) /\ accepted
       THEN /\ users' = [users EXCEPT ![id] = MergeProfile(users[id], profile)]
            /\ ret' = [op |-> "updateUserProfile", id |-> id, profile |-> profile,
                       ok |-> TRUE, val |-> users'[id]]
       ELSE /\ ret' = [op |-> "updateUserProfile", id |-> id, profile |-> profile,
                       ok |-> FALSE]
            /\ UNCHANGED users
    /\ UNCHANGED <<backend, inflight, pending, registering, roommates, listings, messages,
                   conversations, badges, userId, listingId, messageId, badgeId, now>>

\* the four profile badges in ascending order of their threshold
ProfileBadges ==
    << [name |-> "Profile Starter", requiredPoints |-> 25],
       [name |-> "Halfway There", requiredPoints |-> 50],
       [name |-> "Almost Complete", requiredPoints |-> 75],
       [name |-> "Profile Master", requiredPoints |-> 100] >>

\* the conditions of checkProfileCompletionBadges: >= 25, >= 50, >= 75, === 100
ThresholdMet(k, completion) ==
    IF k = Len(ProfileBadges) THEN completion = ProfileBadges[k].requiredPoints
    ELSE completion >= ProfileBadges[k].requiredPoints

\* the catalog Badge checkProfileCompletionBadges creates for threshold k
NewBadge(id, k) ==
    [id |-> id, name |-> ProfileBadges[k].name,
     description |-> <<"Completed", ProfileBadges[k].requiredPoints, "% of your profile">>,
     icon |-> <<"icon", k>>, category |-> "profile",
     criteria |-> <<"Complete", ProfileBadges[k].requiredPoints, "% of your profile">>,
     requiredPoints |-> ProfileBadges[k].requiredPoints]

\* find(b => b.name === name): the position of the first catalog badge of that
\* name, 0 for none
FindBadge(bs, name) ==
    IF \E i \in 1..Len(bs) : bs[i].name = name
    THEN CHOOSE i \in 1..Len(bs) :
            bs[i].name = name /\ \A j \in 1..(i - 1) : bs[j].name # name
    ELSE 0

\* find-or-create of the catalog badge of threshold k: the catalog afterwards
EnsureBadge(bs, nextId, k) ==
    IF FindBadge(bs, ProfileBadges[k].name) = 0 THEN Append(bs, NewBadge(nextId, k)) ELSE bs

\* getBadgeById: the position of the badge in the catalog, 0 for none
BadgeIndex(bs, bid) ==
    IF \E i \in 1..Len(bs) : bs[i].id = bid
    THEN CHOOSE i \in 1..Len(bs) : bs[i].id = bid
    ELSE 0

\* the UserBadge awardBadge builds from a catalog badge
NewUserBadge(badge, t) ==
    [id |-> badge.id, name |-> badge.name, description |-> badge.description,
     icon |-> badge.icon, category |-> badge.category, awardedAt |-> t]

\* userBadges.some(b => b.id === badgeId)
HasBadge(user, bid) == \E i \in 1..Len(user.userBadges) : user.userBadges[i].id = bid

\* awardBadge on an existing user and badge: the users afterwards
Awarded(us, bs, uid, bid, t) ==
    IF HasBadge(us[uid], bid) THEN us
    ELSE [us EXCEPT ![uid].userBadges = Append(@, NewUserBadge(bs[BadgeIndex(bs, bid)], t))]

\* awardBadge: fails for a user or a badge that does not exist; MemStorage
\* returns the UserBadge it has just built, the database backend the one
\* the user already holds when there is one
AwardBadge(uid, bid) ==
    /\ IF uid \in 1..Len(users) /\ BadgeIndex(badges, bid) # 0
       THEN /\ users' = Awarded(users, badges, uid, bid, now)
            /\ ret' = [op |-> "awardBadge", userId |-> uid, badgeId |-> bid, ok |-> TRUE,
                       val |-> IF backend = "db" /\ HasBadge(users[uid], bid)
                               THEN LET held == users[uid].userBadges
                                    IN  held[CHOOSE i \in 1..Len(held) :
                                               held[i].id = bid /\
                                               \A j \in 1..(i - 1) : held[j].id # bid]
                               ELSE NewUserBadge(badges[BadgeIndex(badges, bid)], now)]
       ELSE /\ ret' = [op |-> "awardBadge", userId |-> uid, badgeId |-> bid, ok |-> FALSE]
            /\ UNCHANGED users
    /\ UNCHANGED <<backend, inflight, pending, registering, roommates, listings, messages,
                   conversations, badges, userId, listingId, messageId, badgeId, now>>

\* getUserBadges: the user's badges, [] for a user that does not exist
GetUserBadges(uid) ==
    /\ ret' = [op |-> "getUserBadges", userId |-> uid,
               val |-> IF uid \in 1..Len(users) THEN users[uid].userBadges ELSE <<>>]
    /\ UNCHANGED <<backend, inflight, pending, registering, users, roommates, listings, messages,
                   conversations, badges, userId, listingId, messageId, badgeId, now>>

\* MemStorage.calculateProfileCompletion: the fields that are neither null nor
\* undefined, and a non-empty preferences array
MemCompletedFields(user) ==
    Cardinality({f \in {"firstName", "lastName", "age", "gender", "occupation",
                        "location", "bio", "profileImage"} : IsSome(user[f])})
    + (IF Len(user.preferences) > 0 THEN 1 ELSE 0)

\* DatabaseStorage.calculateProfileCompletion: the truthy fields
DbFilledFields(user) ==
    Cardinality({f \in {"firstName", "lastName", "gender", "occupation", "bio",
                        "profileImage"} : TruthyStr(user[f])})
    + (IF TruthyText(user.location) THEN 1 ELSE 0)
    + (IF IsSome(user.age) /\ Get(user.age) # 0 THEN 1 ELSE 0)
    + (IF Len(user.preferences) > 0 THEN 1 ELSE 0)

\* the number of signals of the completion percentage
TotalFields == 9

\* Math.round((filled / 9) * 100)
Percentage(filled) == Round(filled * 100, TotalFields)

RECURSIVE CheckBadgesFrom(_, _, _, _, _, _)
\* checkProfileCompletionBadges from threshold k on, awaited: the users and the
\* catalog afterwards
CheckBadgesFrom(k, us, bs, uid, completion, t) ==
    IF k > Len(ProfileBadges) THEN [users |-> us, badges |-> bs]
    ELSE IF ThresholdMet(k, completion)
         THEN LET catalog == EnsureBadge(bs, Len(bs) + 1, k)
                  bid == catalog[FindBadge(catalog, ProfileBadges[k].name)].id
              IN  CheckBadgesFrom(k + 1, Awarded(us, catalog, uid, bid, t), catalog,
                                  uid, completion, t)
         ELSE CheckBadgesFrom(k + 1, us, bs, uid, completion, t)

\* MemStorage.calculateProfileCompletion: stores the percentage, runs
\* checkProfileCompletionBadges up to its first await (the first catalog badge
\* is found or created) and returns; the awards are left pending
MemCalculateProfileCompletion(uid) ==
    LET percentage == Percentage(MemCompletedFields(users[uid]))
    IN  /\ users' = [users EXCEPT ![uid].profileCompletion = percentage]
        /\ IF ThresholdMet(1, percentage)
           THEN /\ badges' = EnsureBadge(badges, badgeId, 1)
                /\ pending' = Append(pending, [userId |-> uid, completion |-> percentage,
                                               next |-> 1])
           ELSE UNCHANGED <<badges, pending>>
        /\ badgeId' = badgeId + Len(badges') - Len(badges)
        /\ ret' = [op |-> "calculateProfileCompletion", userId |-> uid, ok |-> TRUE,
                   val |-> percentage]

\* DatabaseStorage.calculateProfileCompletion: writes the percentage and checks
\* the badges only when the stored percentage differs
DbCalculateProfileCompletion(uid) ==
    LET completion == Percentage(DbFilledFields(users[uid]))
        checked == CheckBadgesFrom(1, [users EXCEPT ![uid].profileCompletion = completion],
                                   badges, uid, completion, now)
    IN  /\ IF users[uid].profileCompletion # completion
           THEN /\ users' = checked.users
                /\ badges' = checked.badges
           ELSE UNCHANGED <<users, badges>>
        /\ badgeId' = badgeId + Len(badges') - Len(badges)
        /\ UNCHANGED pending
        /\ ret' = [op |-> "calculateProfileCompletion", userId |-> uid, ok |-> TRUE,
                   val |-> completion]

CalculateProfileCompletion(uid) ==
    /\ IF uid \in 1..Len(users)
       THEN IF backend = "mem" THEN MemCalculateProfileCompletion(uid)
            ELSE DbCalculateProfileCompletion(uid)
       ELSE /\ ret' = [op |-> "calculateProfileCompletion", userId |-> uid, ok |-> FALSE]
            /\ UNCHANGED <<users, badges, badgeId, pending>>
    /\ UNCHANGED <<backend, inflight, registering, roommates, listings, messages, conversations,
                   userId, listingId, messageId, now>>

\* MemStorage.checkProfileCompletionBadges resumed: the award of the pending
\* check's next threshold, then the catalog badge of the threshold after it
\* when that one is met too
AwardPending(i) ==
    LET task == pending[i]
        k == task.next
        bid == badges[FindBadge(badges, ProfileBadges[k].name)].id
        more == k < Len(ProfileBadges) /\ ThresholdMet(k + 1, task.completion)
    IN  /\ users' = Awarded(users, badges, task.userId, bid, now)
        /\ badges' = IF more THEN EnsureBadge(badges, badgeId, k + 1) ELSE badges
        /\ badgeId' = badgeId + Len(badges') - Len(badges)
        /\ pending' = IF more THEN [pending EXCEPT ![i].next = k + 1]
                      ELSE SubSeq(pending, 1, i - 1) \o SubSeq(pending, i + 1, Len(pending))
        /\ UNCHANGED <<backend, inflight, registering, roommates, listings, messages,
                       conversations, userId, listingId, messageId, now, ret>>

----------------------------------------------------------------------------
(* Specification SpecProfile: a registered user edits the profile, has the  *)
(* completion recomputed and is awarded badges.                            *)

MaxPending == 1

\* the badge ids a caller passes to awardBadge
AwardInputs == {1, 2}

\* a UserBadge as a caller may supply it in a partial profile
SuppliedBadge == NewUserBadge(NewBadge(1, 1), 0)

\* partial profiles: three groups of fields that together fill the profile, an
\* empty bio, no preferences, badge lists, a completion value, and nothing
ProfileInputs ==
    << [firstName |-> Some("Ann"), lastName |-> Some("Lee"), age |-> Some(30)],
       [gender |-> Some("female"), occupation |-> Some("Nurse"),
        location |-> Some(Brooklyn), bio |-> Some("bio")],
       [preferences |-> <<"Clean">>, profileImage |-> Some("image")],
       [bio |-> Some("")],
       [preferences |-> <<>>],
       [userBadges |-> <<>>],
       [userBadges |-> <<SuppliedBadge, SuppliedBadge>>],
       [profileCompletion |-> 100],
       <<>> >>

InitProfile ==
    /\ backend \in {"mem", "db"}
    /\ now = 3
    /\ users = <<NewUser(1, "ann", "secret", now)>>
    /\ roommates = <<>>
    /\ listings = <<>>
    /\ messages = <<>>
    /\ conversations = <<>>
    /\ badges = <<>>
    /\ userId = 2
    /\ listingId = 1
    /\ messageId = 1
    /\ badgeId = 1
    /\ pending = <<>>
    /\ registering = <<>>
    /\ inflight = <<>>
    /\ ret = NoCall

NextProfile ==
    \/ \E i \in 1..Len(ProfileInputs), accepted \in BOOLEAN :
          UpdateUserProfile(1, ProfileInputs[i], accepted)
    \/ \E bid \in AwardInputs : AwardBadge(1, bid)
    \/ GetUserBadges(1)
    \/ Len(pending) < MaxPending /\ CalculateProfileCompletion(1)
    \/ \E i \in 1..Len(pending) : AwardPending(i)

SpecProfile == InitProfile /\ [][NextProfile]_vars

\* the badge ids of a user's userBadges, in order
BadgeIds(user) == [i \in 1..Len(user.userBadges) |-> user.userBadges[i].id]

\* C11 (as stated): no user's userBadges holds two entries with the same badge id.
C11_UniqueBadgeIds ==
    \A u \in 1..Len(users) : NoRepeat(BadgeIds(users[u]))

\* the user holds a badge of that name
HoldsBadgeNamed(user, name) ==
    \E i \in 1..Len(user.userBadges) : user.userBadges[i].name = name

\* C12 (as stated, and granting the awards time to finish): when
\* calculateProfileCompletion(u) has returned p and no badge check is still
\* running, u holds the badge of every threshold t <= p.
C12_ThresholdBadgesHeld ==
    (ret.op = "calculateProfileCompletion" /\ ret.ok /\ pending = <<>>) =>
        \A k \in 1..Len(ProfileBadges) :
            ret.val >= ProfileBadges[k].requiredPoints =>
                HoldsBadgeNamed(users[ret.userId], ProfileBadges[k].name)

\* C13 (as stated): a badge id held by a user is still held after every step.
C13_BadgesNeverRevoked ==
    [][\A u \in 1..Len(users) :
          \A i \in 1..Len(users[u].userBadges) :
              HasBadge(users'[u], users[u].userBadges[i].id)]_vars

\* the nine signals of the specification that are present and non-empty
FilledSignals(user) ==
    Cardinality({f \in {"firstName", "lastName", "gender", "occupation", "bio",
                        "profileImage"} : IsSome(user[f]) /\ Get(user[f]) # ""})
    + (IF IsSome(user.location) /\ Get(user.location) # <<>> THEN 1 ELSE 0)
    + (IF IsSome(user.age) THEN 1 ELSE 0)
    + (IF user.preferences # <<>> THEN 1 ELSE 0)

\* C20 (as stated): every user's stored profileCompletion is round(100 * filled / 9)
\* of the signals present in the user's record.
C20_CompletionIsCurrent ==
    \A u \in 1..Len(users) :
        users[u].profileCompletion = (200 * FilledSignals(users[u]) + 9) \div 18

----------------------------------------------------------------------------
(* Registration (POST /api/auth/register): the handler awaits              *)
(* getUserByUsername, then awaits createUser; other requests run between   *)
(* the two.                                                                *)

\* the handler up to its first await: 409 for a username that exists, else the
\* request goes on to createUser
RegisterCheck(data) ==
    /\ IF UsernameTaken(users, data.username)
       THEN /\ ret' = [op |-> "register", data |-> data, status |-> 409]
            /\ UNCHANGED registering
       ELSE /\ registering' = Append(registering, data)
            /\ UNCHANGED ret
    /\ UNCHANGED <<backend, inflight, pending, users, roommates, listings, messages, conversations,
                   badges, userId, listingId, messageId, badgeId, now>>

\* the rest of the handler for a request that passed the check: createUser,
\* then 201 with the user, or 500 when createUser throws
RegisterCreate(i) ==
    LET data == registering[i]
    IN  /\ registering' = SubSeq(registering, 1, i - 1) \o
                          SubSeq(registering, i + 1, Len(registering))
        /\ IF backend = "db" /\ UsernameTaken(users, data.username)
           THEN /\ ret' = [op |-> "register", data |-> data, status |-> 500]
                /\ UNCHANGED <<users, userId>>
           ELSE /\ users' = Append(users, NewUser(userId, data.username, data.password, now))
                /\ userId' = userId + 1
                /\ ret' = [op |-> "register", data |-> data, status |-> 201,
                           val |-> users'[Len(users')]]
        /\ UNCHANGED <<backend, inflight, pending, roommates, listings, messages, conversations,
                       badges, listingId, messageId, badgeId, now>>

----------------------------------------------------------------------------
(* Specification SpecUsers: registrations through the route, createUser    *)
(* called directly, and profile updates of the users there are.            *)

MaxUsers == 2

MaxRegistering == 2

UserInputs == [username : {"ann", "bob"}, password : {"secret"}]

\* partial profiles: three fields, a completion value, and nothing
UpdateInputs ==
    << [firstName |-> Some("Ann"), lastName |-> Some("Lee"), age |-> Some(30)],
       [profileCompletion |-> 100],
       <<>> >>

InitUsers ==
    /\ backend \in {"mem", "db"}
    /\ now = 3
    /\ users = <<>>
    /\ roommates = <<>>
    /\ listings = <<>>
    /\ messages = <<>>
    /\ conversations = <<>>
    /\ badges = <<>>
    /\ userId = 1
    /\ listingId = 1
    /\ messageId = 1
    /\ badgeId = 1
    /\ pending = <<>>
    /\ registering = <<>>
    /\ inflight = <<>>
    /\ ret = NoCall

NextUsers ==
    \/ \E insertUser \in UserInputs : Len(users) < MaxUsers /\ CreateUser(insertUser)
    \/ \E data \in UserInputs :
          Len(users) + Len(registering) < MaxUsers /\ Len(registering) < MaxRegistering /\
          RegisterCheck(data)
    \/ \E i \in 1..Len(registering) : RegisterCreate(i)
    \/ \E id \in 1..MaxUsers, i \in 1..Len(UpdateInputs), accepted \in BOOLEAN :
          UpdateUserProfile(id, UpdateInputs[i], accepted)

SpecUsers == InitUsers /\ [][NextUsers]_vars

\* C14 (as stated): no two stored users share a username.
C14_UniqueUsernames ==
    \A i, j \in 1..Len(users) : users[i].username = users[j].username => i = j

\* C15: an updateUserProfile(id, partial) step sets the fields of partial in user
\* id and changes no other field of that user and no other user; for an id
\* that does not exist it fails and changes nothing; it leaves the stored
\* completion and the badges alone unless partial holds them, and starts no
\* badge check.
C15_UpdateFrame ==
    [][(ret'.op = "updateUserProfile" /\ ret' # ret) =>
          /\ Len(users') = Len(users)
          /\ badges' = badges
          /\ pending' = pending
          /\ IF ret'.id \in 1..Len(users)
             THEN /\ \A u \in 1..Len(users) : \A k \in DOMAIN users[u] :
                        users'[u][k] = IF u = ret'.id /\ k \in DOMAIN ret'.profile
                                       THEN ret'.profile[k]
                                       ELSE users[u][k]
                  /\ DOMAIN ret'.profile # {} => ret'.ok
                  /\ ret'.ok => ret'.val = users'[ret'.id]
             ELSE ~ret'.ok /\ users' = users]_vars

\* the second of two users, whose completion had been set to 100, has had three
\* fields set by updateUserProfile; the first user had them set before
C15_Witness ==
    /\ ret.op = "updateUserProfile"
    /\ ret.ok
    /\ ret.id = 2
    /\ DOMAIN ret.profile = {"firstName", "lastName", "age"}
    /\ Len(users) = 2
    /\ users[2].firstName = Some("Ann")
    /\ users[2].profileCompletion = 100
    /\ users[1].firstName = Some("Ann")

----------------------------------------------------------------------------
(* Claims about both backends and about createListing, under SpecListings. *)

\* the ids of a list of rows
IdsOf(rows) == [i \in 1..Len(rows) |-> rows[i].id]

\* C16 (as stated, for one call on the same data): createListing stores the same
\* listing on both backends, and getListings matches the same listings.
C16_BackendsAgree ==
    /\ ret.op = "createListing" =>
          MemNewListing(ret.val.id, ret.userId, ret.listing, ret.val.createdAt) =
          DbNewListing(ret.val.id, ret.userId, ret.listing, ret.val.createdAt)
    /\ ret.op = "getListings" =>
          IdsOf(MemGetListings(listings, ret.filters, ret.currentUserId, now)) =
          IdsOf(DbGetListings(users, listings, ret.filters, ret.currentUserId, now))

\* C17 (as stated): whatever is passed to createListing, the created listing has
\* isFeatured = false and rating = 0, and its amenities and images are the
\* lists supplied, empty when absent.
C17_CreateListingDefaults ==
    ret.op = "createListing" =>
        /\ ret.val.isFeatured = FALSE
        /\ ret.val.rating = 0
        /\ ret.val.amenities = IF IsSome(ret.listing.amenities)
                               THEN Get(ret.listing.amenities) ELSE <<>>
        /\ ret.val.images = IF IsSome(ret.listing.images)
                            THEN Get(ret.listing.images) ELSE <<>>

----------------------------------------------------------------------------
(* Claim about createMessage and getConversations, under SpecMessages.     *)

\* createMessage, whose conversation update failed, has succeeded all the same:
\* the message is the last of the log and is what the caller got
C18_Sent ==
    ( /\ ret.op = "createMessage"
      /\ ~ret.conversationOk
      /\ ret.message.senderId \in 1..Len(users)
      /\ ret.message.receiverId \in 1..Len(users) )
    => /\ ret.ok
       /\ messages # <<>>
       /\ Sent(ret.val) = Sent(messages[Len(messages)])
       /\ ret.val.content = ret.message.content
       /\ ret.val.senderId = ret.message.senderId
       /\ ret.val.receiverId = ret.message.receiverId
       /\ \A i \in 1..(Len(messages) - 1) : messages[i].id # ret.val.id

\* a step from such a createMessage to getConversations of its sender or its
\* receiver: the result has one entry for the other party, made from a latest
\* message of the pair in the log (any of them when several carry the greatest
\* timestamp), at the time of the message just sent
C18_LaterStep ==
    ( /\ ret.op = "createMessage"
      /\ ~ret.conversationOk
      /\ ret.ok
      /\ ret'.op = "getConversations"
      /\ ret'.userId \in {ret.message.senderId, ret.message.receiverId} )
    => LET uid == ret'.userId
           partnerId == PartnerOf(ret.val, uid)
           entries == {i \in 1..Len(ret'.val) : ret'.val[i].userId = partnerId}
       IN  /\ Cardinality(entries) = 1
           /\ \A i \in entries :
                 /\ ret'.val[i].lastMessageTime = ret.val.timestamp
                 /\ \E m \in DbLatestMessages(messages, uid, partnerId) :
                       /\ ret'.val[i].lastMessage = m.content
                       /\ ret'.val[i].lastMessageTime = m.timestamp
                       /\ (ret'.val[i].read = Some(TRUE)) =
                             (m.senderId = uid \/ m.read = Some(TRUE))
                 /\ ret'.val[i].name = DisplayName(users[partnerId])

\* C18: when the conversation update inside createMessage fails, createMessage
\* still succeeds: the message is in the message log and is returned, no error
\* is raised, and a later getConversations still derives the entry of the pair
\* from the log.
C18_PointerFailureSwallowed == []C18_Sent /\ [][C18_LaterStep]_vars

\* getConversations(1) has returned an entry for user 3 although the
\* conversation record of users 1 and 3 was never written
C18_Witness ==
    /\ ret.op = "getConversations"
    /\ ret.userId = 1
    /\ \E i \in 1..Len(ret.val) : ret.val[i].userId = 3 /\ ret.val[i].lastMessage = "hi"
    /\ getConversationKey(1, 3) \notin DOMAIN conversations
    /\ \E i \in 1..Len(messages) :
          {messages[i].senderId, messages[i].receiverId} = {1, 3}

----------------------------------------------------------------------------
(* Specification SpecRoommates: the seeded store, getRoommates without     *)
(* filters and with every combination of the filter inputs, and profile    *)
(* updates that change what the filters look at.                           *)

GetRoommates(filters) ==
    /\ ret' = [op |-> "getRoommates", filters |-> filters,
               val |-> getRoommates(backend, users, roommates, filters)]
    /\ UNCHANGED <<backend, inflight, pending, registering, users, roommates, listings, messages,
                   conversations, badges, userId, listingId, messageId, badgeId, now>>

\* no argument, or a RoommateFilters object with each field absent or supplied
RoommateFilterInputs ==
    {None} \cup
    {Some(f) : f \in
        [location : {None, Some(<<"Y", "o", "r", "k">>), Some(<<"y", "o", "r", "k">>)},
         minAge : {None, Some(26)},
         maxAge : {None, Some(26)},
         gender : {None, Some("male")},
         lifestyle : {None, Some(<<>>), Some(<<"Clean", "Quiet">>)},
         isVerified : {None, Some(TRUE)}]}

\* partial profiles of direct updateUserProfile calls
RoommateUpdateInputs == <<[age |-> None], [preferences |-> <<>>]>>

InitRoommates ==
    /\ backend \in {"mem", "db"}
    /\ now = 3
    /\ users = SeedUsers(now)
    /\ roommates = SeedRoommates
    /\ listings = <<>>
    /\ messages = <<>>
    /\ conversations = <<>>
    /\ badges = <<>>
    /\ userId = 4
    /\ listingId = 1
    /\ messageId = 1
    /\ badgeId = 1
    /\ pending = <<>>
    /\ registering = <<>>
    /\ inflight = <<>>
    /\ ret = NoCall

NextRoommates ==
    \/ \E filters \in RoommateFilterInputs : GetRoommates(filters)
    \/ \E id \in 1..Len(users), i \in 1..Len(RoommateUpdateInputs) :
          UpdateUserProfile(id, RoommateUpdateInputs[i], TRUE)

SpecRoommates == InitRoommates /\ [][NextRoommates]_vars

\* roommate r satisfies every constraint the filters f supply
Satisfies(r, f) ==
    /\ TruthyText(f.location) =>
          IsSome(r.location) /\
          Includes(ToLowerCase(Get(r.location)), ToLowerCase(Get(f.location)))
    /\ IsSome(f.minAge) => IsSome(r.age) /\ Get(f.minAge) <= Get(r.age)
    /\ IsSome(f.maxAge) => IsSome(r.age) /\ Get(r.age) <= Get(f.maxAge)
    /\ IsSome(f.gender) => r.gender = f.gender
    /\ (IsSome(f.lifestyle) /\ Get(f.lifestyle) # <<>>) =>
          \E i \in 1..Len(Get(f.lifestyle)) : Contains(r.preferences, Get(f.lifestyle)[i])
    /\ f.isVerified = Some(TRUE) => r.isVerified

\* C19 (as stated): getRoommates(filters) returns exactly the users with a
\* roommate record that satisfy every supplied constraint (location substring
\* without regard to case, minAge <= age <= maxAge, the gender, one of the
\* lifestyle tags, verified when asked), each once; an absent field is no
\* constraint.
C19_GetRoommatesExact ==
    ret.op = "getRoommates" =>
        /\ {ret.val[i].id : i \in 1..Len(ret.val)} =
              {u.id : u \in {r \in Range(JoinRoommates(users, roommates)) :
                                IsSome(ret.filters) => Satisfies(r, Get(ret.filters))}}
        /\ \A i, j \in 1..Len(ret.val) : ret.val[i].id = ret.val[j].id => i = j

----------------------------------------------------------------------------
(* Claims about the completion percentage, under SpecProfile.              *)

\* C21 (as stated): calculateProfileCompletion returns round(100 * k / 9), k
\* the number of the nine signals that are present and non-empty, an empty
\* string or an empty preference list counting for nothing.
C21_CompletionOfFilledSignals ==
    (ret.op = "calculateProfileCompletion" /\ ret.ok) =>
        ret.val = (200 * FilledSignals(users[ret.userId]) + 9) \div 18

----------------------------------------------------------------------------
(* Specification SpecConversations: the seeded store, up to MaxSent        *)
(* createMessage calls, several of them at one clock reading, to users     *)
(* that exist and to one that does not, and getConversations by every      *)
(* user.                                                                   *)

MaxSent == 2

\* the messages callers send: both directions of a pair, two contents, a
\* second correspondent, and a receiver id that belongs to no user
SentInputs ==
    { [senderId |-> 1, receiverId |-> 2, content |-> "hi", read |-> None],
      [senderId |-> 1, receiverId |-> 2, content |-> "yo", read |-> Some(TRUE)],
      [senderId |-> 2, receiverId |-> 1, content |-> "hi", read |-> Some(FALSE)],
      [senderId |-> 1, receiverId |-> 3, content |-> "hi", read |-> None],
      [senderId |-> 1, receiverId |-> 4, content |-> "hi", read |-> None] }

NextConversations ==
    \/ \E message \in SentInputs, conversationOk \in BOOLEAN :
          Len(messages) < 3 + MaxSent /\ CreateMessage(message, conversationOk)
    \/ \E uid \in 1..Len(users) : GetConversations(uid)
    \/ now < 3 + MaxTicks /\ Tick

SpecConversations == InitMessages /\ [][NextConversations]_vars

\* the latest message of users a and b: the greatest timestamp, and the highest
\* id among the messages that carry it
LatestOf(a, b) ==
    CHOOSE m \in Range(Between(messages, a, b)) :
        \A q \in Range(Between(messages, a, b)) :
            q.timestamp < m.timestamp \/ (q.timestamp = m.timestamp /\ q.id <= m.id)

\* the correspondents of user u that are users
Correspondents(u) ==
    {p \in 1..Len(users) : Between(messages, u, p) # <<>>}

\* C22 (as stated): getConversations(u) returns one entry per correspondent of u
\* that is a user, built from the latest message of the pair (greatest
\* timestamp, then highest id): its content, its timestamp, and read true iff u
\* sent it or its read flag is true.
C22_EntriesFromLatest ==
    ret.op = "getConversations" =>
        /\ {ret.val[i].userId : i \in 1..Len(ret.val)} = Correspondents(ret.userId)
        /\ Len(ret.val) = Cardinality(Correspondents(ret.userId))
        /\ \A i \in 1..Len(ret.val) :
              LET m == LatestOf(ret.userId, ret.val[i].userId)
              IN  /\ ret.val[i].lastMessage = m.content
                  /\ ret.val[i].lastMessageTime = m.timestamp
                  /\ (ret.val[i].read = Some(TRUE)) =
                        (m.senderId = ret.userId \/ m.read = Some(TRUE))

\* C23 (as stated): the entries getConversations returns are in strict
\* descending order of lastMessageTime.
C23_StrictlyDescending ==
    ret.op = "getConversations" =>
        \A i, j \in 1..Len(ret.val) :
            i < j => ret.val[i].lastMessageTime > ret.val[j].lastMessageTime

\* C23 (amended): the entries getConversations returns are in descending order
\* of lastMessageTime, entries of one time next to each other in either order.
C23_Descending ==
    ret.op = "getConversations" =>
        \A i, j \in 1..Len(ret.val) :
            i < j => ret.val[i].lastMessageTime >= ret.val[j].lastMessageTime

\* getConversations has returned the entries of two correspondents whose
\* latest messages were sent at different times
C23_Witness ==
    /\ ret.op = "getConversations"
    /\ Len(ret.val) = 2
    /\ ret.val[1].lastMessageTime > ret.val[2].lastMessageTime

\* C25 (as stated): the sender and the receiver of every stored message are
\* ids of users.
C25_MessagesReferenceUsers ==
    \A i \in 1..Len(messages) :
        /\ \E u \in 1..Len(users) : users[u].id = messages[i].senderId
        /\ \E u \in 1..Len(users) : users[u].id = messages[i].receiverId

----------------------------------------------------------------------------
(* Claim about the life of a message, under SpecMessages.                  *)

\* a step stores a new message unread (an absent flag counting as unread),
\* and leaves each stored message as sent, its read flag never going back from
\* true
C24_Step ==
    /\ Len(messages') >= Len(messages)
    /\ \A i \in (Len(messages) + 1)..Len(messages') : messages'[i].read # Some(TRUE)
    /\ \A i \in 1..Len(messages) :
          /\ Sent(messages'[i]) = Sent(messages[i])
          /\ messages[i].read = Some(TRUE) => messages'[i].read = Some(TRUE)

\* C24 (as stated): a message's read flag is false when createMessage stores
\* it, whatever the caller supplies, and afterwards only changes from false to
\* true; no operation edits its sender, receiver, content or timestamp.
C24_ReadOnlyRises == [][C24_Step]_vars

----------------------------------------------------------------------------
(* Concurrent calculateProfileCompletion calls.  DatabaseStorage awaits    *)
(* getAllBadges, the insert of a missing catalog badge and awardBadge one  *)
(* after the other; other calls run between them.  A call suspended there  *)
(* is an element of inflight: the user, the completion, the threshold k    *)
(* it is at, the step it takes next and the catalog badge it holds.        *)

\* DatabaseStorage.calculateProfileCompletion up to the first await of
\* checkProfileCompletionBadges: the percentage is written when it differs, and
\* only then are the badges checked; without a check the call returns
DbCalculateStart(uid) ==
    LET completion == Percentage(DbFilledFields(users[uid]))
        changed == users[uid].profileCompletion # completion
    IN  /\ backend = "db"
        /\ users' = [users EXCEPT ![uid].profileCompletion = completion]
        /\ IF changed /\ ThresholdMet(1, completion)
           THEN /\ inflight' = Append(inflight,
                                      [op |-> "checkProfileCompletionBadges", userId |-> uid,
                                       completion |-> completion, k |-> 1,
                                       next |-> "find", badgeId |-> 0])
                /\ UNCHANGED ret
           ELSE /\ ret' = [op |-> "calculateProfileCompletion", userId |-> uid, ok |-> TRUE,
                           val |-> completion]
                /\ UNCHANGED inflight
        /\ UNCHANGED <<backend, pending, registering, roommates, listings, messages,
                       conversations, badges, userId, listingId, messageId, badgeId, now>>

\* (await this.getAllBadges()).find(b => b.name === ...): the badge is held when
\* the catalog has it, else the insert is next
DbFindBadge(i) ==
    LET task == inflight[i]
        found == FindBadge(badges, ProfileBadges[task.k].name)
    IN  /\ task.op = "checkProfileCompletionBadges"
        /\ task.next = "find"
        /\ inflight' = [inflight EXCEPT ![i] =
                          IF found = 0 THEN [task EXCEPT !.next = "insert"]
                          ELSE [task EXCEPT !.next = "award", !.badgeId = badges[found].id]]
        /\ UNCHANGED <<backend, pending, registering, users, roommates, listings, messages,
                       conversations, badges, userId, listingId, messageId, badgeId, now,
                       ret>>

\* await this.db.insert(badges).values({...}).returning(): a new catalog row,
\* its id from the serial column
DbInsertBadge(i) ==
    LET task == inflight[i]
    IN  /\ task.op = "checkProfileCompletionBadges"
        /\ task.next = "insert"
        /\ badges' = Append(badges, NewBadge(badgeId, task.k))
        /\ badgeId' = badgeId + 1
        /\ inflight' = [inflight EXCEPT ![i] =
                          [task EXCEPT !.next = "award", !.badgeId = badgeId]]
        /\ UNCHANGED <<backend, pending, registering, users, roommates, listings, messages,
                       conversations, userId, listingId, messageId, now, ret>>

\* await this.awardBadge(userId, badge.id), then the next threshold when the
\* completion meets it, else checkProfileCompletionBadges and with it
\* calculateProfileCompletion return
DbAwardFound(i) ==
    LET task == inflight[i]
        more == task.k < Len(ProfileBadges) /\ ThresholdMet(task.k + 1, task.completion)
    IN  /\ task.op = "checkProfileCompletionBadges"
        /\ task.next = "award"
        /\ users' = Awarded(users, badges, task.userId, task.badgeId, now)
        /\ IF more
           THEN /\ inflight' = [inflight EXCEPT ![i] =
                                  [task EXCEPT !.k = task.k + 1, !.next = "find",
                                               !.badgeId = 0]]
                /\ UNCHANGED ret
           ELSE /\ inflight' = SubSeq(inflight, 1, i - 1) \o
                               SubSeq(inflight, i + 1, Len(inflight))
                /\ ret' = [op |-> "calculateProfileCompletion", userId |-> task.userId,
                           ok |-> TRUE, val |-> task.completion]
        /\ UNCHANGED <<backend, pending, registering, roommates, listings, messages,
                       conversations, badges, userId, listingId, messageId, badgeId, now>>

----------------------------------------------------------------------------
(* Specification SpecBadges: two users whose profiles meet the first       *)
(* threshold and whose stored completion is still 0; profile updates that  *)
(* bring them to the second; up to MaxInFlight calculateProfileCompletion  *)
(* calls at a time, on either backend.                                     *)

MaxInFlight == 2

\* a registered user with first name, last name and age
ThirdFilled(id, username, t) ==
    MergeProfile(NewUser(id, username, "secret", t),
                 [firstName |-> Some("Ann"), lastName |-> Some("Lee"), age |-> Some(30)])

BadgeUpdateInputs == <<[gender |-> Some("female"), occupation |-> Some("Nurse")]>>

InitBadges ==
    /\ backend \in {"mem", "db"}
    /\ now = 3
    /\ users = <<ThirdFilled(1, "ann", now), ThirdFilled(2, "bob", now)>>
    /\ roommates = <<>>
    /\ listings = <<>>
    /\ messages = <<>>
    /\ conversations = <<>>
    /\ badges = <<>>
    /\ userId = 3
    /\ listingId = 1
    /\ messageId = 1
    /\ badgeId = 1
    /\ pending = <<>>
    /\ registering = <<>>
    /\ inflight = <<>>
    /\ ret = NoCall

NextBadges ==
    \/ \E uid \in 1..Len(users), i \in 1..Len(BadgeUpdateInputs) :
          UpdateUserProfile(uid, BadgeUpdateInputs[i], TRUE)
    \/ \E uid \in 1..Len(users) :
          backend = "mem" /\ Len(pending) < MaxInFlight /\ CalculateProfileCompletion(uid)
    \/ \E i \in 1..Len(pending) : AwardPending(i)
    \/ \E uid \in 1..Len(users) : Len(inflight) < MaxInFlight /\ DbCalculateStart(uid)
    \/ \E i \in 1..Len(inflight) : DbFindBadge(i)
    \/ \E i \in 1..Len(inflight) : DbInsertBadge(i)
    \/ \E i \in 1..Len(inflight) : DbAwardFound(i)

SpecBadges == InitBadges /\ [][NextBadges]_vars

\* C26 (as stated): the badge catalog never holds two badges of the same name,
\* also when calculateProfileCompletion runs for several users at a time.
C26_UniqueBadgeNames ==
    \A i, j \in 1..Len(badges) : badges[i].name = badges[j].name => i = j

----------------------------------------------------------------------------
(* MemStorage calls suspended at `await this.getUser(userId)`.  The call   *)
(* holds the user object it was given and writes that object back when it  *)
(* resumes; updateUserProfile in between puts a new object into the map    *)
(* and leaves the held one as it was.  One call per user is suspended at   *)
(* a time, so that no two calls hold the same object.                      *)

\* MemStorage.awardBadge up to its awaits: throws for a user that does not
\* exist, else holds the user object
MemAwardGetUser(uid, bid) ==
    /\ backend = "mem"
    /\ \A j \in 1..Len(inflight) : inflight[j].userId # uid
    /\ IF uid \in 1..Len(users)
       THEN /\ inflight' = Append(inflight, [op |-> "awardBadge", userId |-> uid,
                                             badgeId |-> bid, user |-> users[uid]])
            /\ UNCHANGED ret
       ELSE /\ ret' = [op |-> "awardBadge", userId |-> uid, badgeId |-> bid, ok |-> FALSE]
            /\ UNCHANGED inflight
    /\ UNCHANGED <<backend, pending, registering, users, roommates, listings, messages,
                   conversations, badges, userId, listingId, messageId, badgeId, now>>

\* MemStorage.awardBadge resumed: throws for a badge that does not exist; pushes
\* the badge on the held object and sets the map entry to that object, unless
\* the held object has the badge
MemAwardSet(i) ==
    LET task == inflight[i]
        idx == BadgeIndex(badges, task.badgeId)
    IN  /\ task.op = "awardBadge"
        /\ inflight' = SubSeq(inflight, 1, i - 1) \o SubSeq(inflight, i + 1, Len(inflight))
        /\ IF idx = 0
           THEN /\ ret' = [op |-> "awardBadge", userId |-> task.userId,
                           badgeId |-> task.badgeId, ok |-> FALSE]
                /\ UNCHANGED users
           ELSE /\ users' = IF HasBadge(task.user, task.badgeId) THEN users
                            ELSE [users EXCEPT ![task.userId] =
                                     [task.user EXCEPT !.userBadges =
                                         Append(@, NewUserBadge(badges[idx], now))]]
                /\ ret' = [op |-> "awardBadge", userId |-> task.userId,
                           badgeId |-> task.badgeId, ok |-> TRUE,
                           val |-> NewUserBadge(badges[idx], now)]
        /\ UNCHANGED <<backend, pending, registering, roommates, listings, messages,
                       conversations, badges, userId, listingId, messageId, badgeId, now>>

\* MemStorage.calculateProfileCompletion up to its await: throws for a user that
\* does not exist, else holds the user object
MemCalculateGetUser(uid) ==
    /\ backend = "mem"
    /\ \A j \in 1..Len(inflight) : inflight[j].userId # uid
    /\ IF uid \in 1..Len(users)
       THEN /\ inflight' = Append(inflight, [op |-> "calculateProfileCompletion",
                                             userId |-> uid, user |-> users[uid]])
            /\ UNCHANGED ret
       ELSE /\ ret' = [op |-> "calculateProfileCompletion", userId |-> uid, ok |-> FALSE]
            /\ UNCHANGED inflight
    /\ UNCHANGED <<backend, pending, registering, users, roommates, listings, messages,
                   conversations, badges, userId, listingId, messageId, badgeId, now>>

\* MemStorage.calculateProfileCompletion resumed: the percentage of the held
\* object is written into it, the map entry is set to that object, and
\* checkProfileCompletionBadges is started as in MemCalculateProfileCompletion
MemCalculateSet(i) ==
    LET task == inflight[i]
        percentage == Percentage(MemCompletedFields(task.user))
    IN  /\ task.op = "calculateProfileCompletion"
        /\ inflight' = SubSeq(inflight, 1, i - 1) \o SubSeq(inflight, i + 1, Len(inflight))
        /\ users' = [users EXCEPT ![task.userId] =
                        [task.user EXCEPT !.profileCompletion = percentage]]
        /\ IF ThresholdMet(1, percentage)
           THEN /\ badges' = EnsureBadge(badges, badgeId, 1)
                /\ pending' = Append(pending, [userId |-> task.userId,
                                               completion |-> percentage, next |-> 1])
           ELSE UNCHANGED <<badges, pending>>
        /\ badgeId' = badgeId + Len(badges') - Len(badges)
        /\ ret' = [op |-> "calculateProfileCompletion", userId |-> task.userId,
                   ok |-> TRUE, val |-> percentage]
        /\ UNCHANGED <<backend, registering, roommates, listings, messages, conversations,
                       userId, listingId, messageId, now>>

----------------------------------------------------------------------------
(* Specification SpecRace: MemStorage with a new user and a user who holds *)
(* the first profile badge; profile updates, awardBadge and                *)
(* calculateProfileCompletion calls, the latter two suspended at their     *)
(* await while other calls run.                                            *)

\* a user with a third of the profile filled, its completion computed and the
\* first profile badge awarded
StarterUser(id, username, t) ==
    MergeProfile(ThirdFilled(id, username, t),
                 [profileCompletion |-> 33,
                  userBadges |-> <<NewUserBadge(NewBadge(1, 1), t)>>])

\* partial profiles that keep the completion below the first threshold
RaceUpdateInputs == <<[bio |-> Some("bio")], [firstName |-> Some("Ann")]>>

InitRace ==
    /\ backend = "mem"
    /\ now = 3
    /\ users = <<NewUser(1, "ann", "secret", now), StarterUser(2, "bob", now)>>
    /\ roommates = <<>>
    /\ listings = <<>>
    /\ messages = <<>>
    /\ conversations = <<>>
    /\ badges = <<NewBadge(1, 1)>>
    /\ userId = 3
    /\ listingId = 1
    /\ messageId = 1
    /\ badgeId = 2
    /\ pending = <<>>
    /\ registering = <<>>
    /\ inflight = <<>>
    /\ ret = NoCall

NextRace ==
    \/ \E i \in 1..Len(RaceUpdateInputs) : UpdateUserProfile(1, RaceUpdateInputs[i], TRUE)
    \/ \E uid \in {1, 3}, bid \in AwardInputs :
          Len(inflight) < MaxInFlight /\ MemAwardGetUser(uid, bid)
    \/ \E i \in 1..Len(inflight) : MemAwardSet(i)
    \/ \E uid \in {1, 3} : Len(inflight) < MaxInFlight /\ MemCalculateGetUser(uid)
    \/ \E i \in 1..Len(inflight) : MemCalculateSet(i)
    \/ now < 3 + MaxTicks /\ Tick

SpecRace == InitRace /\ [][NextRace]_vars

\* the fields of a user that only updateUserProfile writes
ProfileFields(user) ==
    [k \in DOMAIN user \ {"userBadges", "profileCompletion"} |-> user[k]]

\* C27 (as stated): in MemStorage no step of awardBadge or of
\* calculateProfileCompletion changes what a completed updateUserProfile has
\* stored: every step that is not an updateUserProfile leaves every user's
\* profile fields as they are.
C27_UpdateNotUndone ==
    [][ret'.op # "updateUserProfile" =>
           \A u \in 1..Len(users) : ProfileFields(users'[u]) = ProfileFields(users[u])]_vars

----------------------------------------------------------------------------
(* Claim about the range of the scores, under SpecScore.                   *)

\* C28 (as stated): for any two preference lists, lists that repeat a tag
\* included, the lifestyleScore and the overallScore getTopMatches computes lie
\* in 0..100.
C28_ScoresInRange ==
    ret.op = "getTopMatches" =>
        \A i \in 1..Len(ret.val) :
            /\ ret.val[i].compatibilityDetails.lifestyleScore \in 0..100
            /\ ret.val[i].compatibilityDetails.overallScore \in 0..100
            /\ ret.val[i].compatibilityScore \in 0..100

----------------------------------------------------------------------------
(* Claim about listings created without isPublic, under SpecListings.      *)

\* C29 (as stated): a listing created without an explicit isPublic value is
\* public: a listing that was not stored as private is returned by
\* getListingById to every viewer, the undefined viewer included, and is in
\* the result of an unfiltered getListings of every viewer.
C29_PublicByDefault ==
    /\ (ret.op = "getListingById" /\ ret.id \in 1..Len(listings)
        /\ listings[ret.id].isPublic # Some(FALSE))
       => IsSome(ret.val) /\ Get(ret.val).id = ret.id
    /\ (ret.op = "getListings" /\ NoConstraint(ret.filters))
       => \A id \in 1..Len(listings) :
             listings[id].isPublic # Some(FALSE) =>
                 \E i \in 1..Len(ret.val) : ret.val[i].id = id

----------------------------------------------------------------------------
(* Specification SpecExtensions: MemStorage with its seed data; up to      *)
(* MaxCreated users, listings and messages are created, profiles are       *)
(* updated, badges are awarded and completions computed, and getRoommates  *)
(* and getTopMatches are read in between.                                  *)

MaxCreated == 1

\* the partial profiles of the updateUserProfile calls
ExtensionUpdateInputs == <<[preferences |-> <<"Clean">>]>>

\* the listings created: the first template, public
ExtensionListingInputs == {l \in ListingInputs : l.title = "Room" /\ l.isPublic = Some(TRUE)}

InitExtensions ==
    /\ backend = "mem"
    /\ now = 3
    /\ users = SeedUsers(now)
    /\ roommates = SeedRoommates
    /\ listings = <<>>
    /\ messages = <<>>
    /\ conversations = <<>>
    /\ badges = <<>>
    /\ userId = 4
    /\ listingId = 1
    /\ messageId = 1
    /\ badgeId = 1
    /\ pending = <<>>
    /\ registering = <<>>
    /\ inflight = <<>>
    /\ ret = NoCall

\* the users, listings and messages created since the seed data
Created == (Len(users) - Len(SeedUsers(0))) + Len(listings) + Len(messages)

\* the calls are made by or for the user registered last, a completion is
\* computed when no badge check is running
NextExtensions ==
    \/ Created < MaxCreated /\ CreateUser([username |-> "ann", password |-> "secret"])
    \/ \E i \in 1..Len(ExtensionUpdateInputs) :
          UpdateUserProfile(Len(users), ExtensionUpdateInputs[i], TRUE)
    \/ \E listing \in ExtensionListingInputs :
          Created < MaxCreated /\ CreateListing(Len(users), listing)
    \/ Created < MaxCreated /\
       CreateMessage([senderId |-> Len(users), receiverId |-> 1, content |-> "hi",
                      read |-> None], TRUE)
    \/ AwardBadge(Len(users), 1)
    \/ pending = <<>> /\ CalculateProfileCompletion(Len(users))
    \/ \E i \in 1..Len(pending) : AwardPending(i)
    \/ GetRoommates(None)
    \/ \E uid \in 1..Len(users) : GetTopMatches(uid)

SpecExtensions == InitExtensions /\ [][NextExtensions]_vars

\* C30: no MemStorage operation creates or removes a roommate record: after
\* any createUser, updateUserProfile, createListing, createMessage, awardBadge
\* and calculateProfileCompletion calls the records are those of the seed
\* data, unfiltered getRoommates() returns the seeded users and no one else,
\* and a user registered later is in no result of getTopMatches.
C30_RoommatesStaySeeded ==
    /\ roommates = SeedRoommates
    /\ (ret.op = "getRoommates" /\ ret.filters = None) =>
          /\ {ret.val[i].id : i \in 1..Len(ret.val)} = DOMAIN SeedRoommates
          /\ Len(ret.val) = Cardinality(DOMAIN SeedRoommates)
    /\ ret.op = "getTopMatches" =>
          \A i \in 1..Len(ret.val) :
              ret.val[i].id \in DOMAIN SeedRoommates /\ ret.val[i].id # ret.userId

\* a user has registered after the seed data and getRoommates() or that
\* user's getTopMatches has returned the three seeded users
C30_Witness ==
    /\ Len(users) > Cardinality(DOMAIN SeedRoommates)
    /\ \/ ret.op = "getRoommates" /\ Len(ret.val) = 3
       \/ ret.op = "getTopMatches" /\ ret.userId = Len(users) /\ Len(ret.val) = 3

====
